---- MODULE Spec2Model ----
(***************************************************************************)
(* Model of the wyckoff multi agent analysis pipeline:                     *)
(*   - process_response / askDeepSeek      (ai_analyzer/ai_analyzer.py)    *)
(*   - retry, CacheManager                 (data_fetcher/base.py)          *)
(*   - the five role agents and their run_* wrappers                       *)
(*   - run_wyckoff_multi_agent_analysis    (the orchestrator)              *)
(* Python dictionaries use Chinese keys; they are written here with ASCII  *)
(* names, one name per key (see RoleKeys).                                 *)
(***************************************************************************)
EXTENDS Naturals, Integers, Sequences, FiniteSets, TLC

VARIABLES
    \* ---- process_response (one call) ----
    response,           \* the stream: [chunks, raises]
    pos,                \* number of chunks taken from the stream so far
    reasoning_content,  \* local buffer of process_response
    content,            \* local buffer of process_response
    finished,           \* local flag of process_response
    pr_pc,              \* "idle" | "loop" | "after_loop" | "returned"
    pr_result,          \* value returned by process_response
    \* ---- retry(max_retries, retry_delay)(func) (one wrapper call) ----
    max_retries,
    retry_delay,
    attempt,            \* loop variable of wrapper
    r_pc,               \* "idle" | "try" | "returned"
    r_result,           \* value returned by wrapper
    r_log,              \* events of the wrapper call: calls of func and sleeps
    \* ---- askDeepSeek (one call) ----
    ask_max,            \* its max_retries parameter
    ask_attempt,        \* loop variable attempt
    ask_pc,             \* "idle" | "start" | "loop" | "returned" | "raised"
    ask_result,         \* the str returned by askDeepSeek
    ask_log,            \* events of the call: engine requests and sleeps
    \* ---- CacheManager (the cache directory) ----
    files,              \* cache path -> the file there
    now,                \* datetime.now().timestamp(), in seconds
    last_op,            \* the last CacheManager call and what it returned
    last_save,          \* cache path -> the last save_cache call for that path
    \* ---- one role: run_<role>_agent(stock_code) ----
    rs,                 \* the state of the role run (see RoleStart)
    \* ---- run_wyckoff_multi_agent_analysis(stock_code) ----
    stock_code,
    o_pc,               \* "idle" | "roles" | "in_role" | "aggregate" | "assemble" | "save" | "done"
    cur,                \* the try block (role) the orchestrator is at
    expert_reports,     \* the list expert_reports
    report_roles,       \* for each entry of expert_reports, the role that gave it
    run_count,          \* role -> number of calls of its run_<role>_agent
    raised_roles,       \* the roles whose run_<role>_agent call raised
    agg_calls,          \* number of calls of run_chief_strategist_agent
    agg_input,          \* the list passed to run_chief_strategist_agent
    agg_roles,          \* the roles of the entries of agg_input
    agg_raised,         \* the call of run_chief_strategist_agent raised
    chief_strategist_result,
    final_result,       \* the dict final_result
    saved,              \* the result file was written
    returned,           \* the value returned to the caller
    \* ---- main() ----
    m_input,            \* the line read by input(), a sequence of characters
    m_pc,               \* "idle" | "input" | "rejected" | "called"
    stock_symbol,       \* the local stock_symbol (after strip)
    \* ---- get_market_benchmark_data(stock_code) of one role ----
    b_code,             \* the argument stock_code, a sequence of characters
    b_pc,               \* "idle" | "call" | "done"
    b_role,             \* the role whose method was called
    b_index,            \* index_code
    b_result,           \* the value returned
    b_env,              \* what the collaborators of the call did
    \* ---- two processes using one cache path at the same time ----
    c_file,             \* the directory entry of the path and the file behind it
    c_procs,            \* process -> its CacheManager call and where it stands
    \* ---- one call of a retry-decorated fetcher (with the retry variables) ----
    f_fetcher,          \* which fetcher is called
    f_market,           \* MarketType.get_market(symbol) recognises the symbol
    f_now,              \* the time of the call, in seconds
    f_file,             \* the fund_flow cache file of the symbol
    f_mem,              \* StockDataFetcher._cache.get(symbol)
    f_calls,            \* what each call of the decorated function did
    \* ---- StockCodeConverter.convert and MarketType.get_market on one str ----
    k_code,             \* the argument, a sequence of characters
    k_convert,          \* what convert(k_code) did
    k_again,            \* what convert did on the value convert returned
    k_market            \* what get_market(k_code) returned

streamVars == <<response, pos, reasoning_content, content, finished, pr_pc, pr_result>>
retryVars  == <<max_retries, retry_delay, attempt, r_pc, r_result, r_log>>
askVars    == <<ask_max, ask_attempt, ask_pc, ask_result, ask_log>>
cacheVars  == <<files, now, last_op, last_save>>
roleVars   == <<rs>>
orchVars   == <<stock_code, o_pc, cur, expert_reports, report_roles, run_count,
                raised_roles, agg_calls, agg_input, agg_roles, agg_raised,
                chief_strategist_result, final_result, saved, returned>>
mainVars   == <<m_input, m_pc, stock_symbol>>
benchVars  == <<b_code, b_pc, b_role, b_index, b_result, b_env>>
concVars   == <<c_file, c_procs>>
fetchVars  == <<f_fetcher, f_market, f_now, f_file, f_mem, f_calls>>
convVars   == <<k_code, k_convert, k_again, k_market>>
vars == <<streamVars, retryVars, askVars, cacheVars, roleVars, orchVars,
          mainVars, benchVars, concVars, fetchVars, convVars>>

(***************************************************************************)
(* Python values.  None and a present value are told apart by the field    *)
(* isNone; a str is a sequence of characters, "" is << >>.                 *)
(***************************************************************************)
None == [isNone |-> TRUE]
Some(v) == [isNone |-> FALSE, v |-> v]

\* Bounds of the model.
MaxChunks == 3          \* longest stream drawn for process_response
MaxRetriesBound == 4    \* largest max_retries drawn for the retry wrapper
MaxDelay == 2           \* largest retry_delay drawn for the retry wrapper
MaxTicks == 3           \* the clock of the cache runs for MaxTicks steps of TickSeconds
MaxInputLen == 8        \* longest line drawn for input() in main
MaxCodeLen == 4         \* longest stock code drawn for the benchmark selection
MaxTail == 6            \* most characters drawn after the first one of a code to convert

RECURSIVE SeqsUpTo(_, _)
SeqsUpTo(S, n) == IF n = 0 THEN {<< >>}
                  ELSE SeqsUpTo(S, n - 1) \cup [1..n -> S]

(***************************************************************************)
(* Stream chunks (ChatCompletionChunk).  choices: chunk.choices is not     *)
(* empty; delta: choices[0].delta is not None; finish_reason of            *)
(* choices[0]; the two fragments of the delta.                             *)
(***************************************************************************)
Chunk(ch, d, fr, rc, c) ==
    [choices |-> ch, delta |-> d, finish_reason |-> fr,
     reasoning_content |-> rc, content |-> c]

NoChoicesChunk == Chunk(FALSE, FALSE, "None", None, None)

Chunks ==
    {NoChoicesChunk}
    \cup {Chunk(TRUE, FALSE, fr, None, None) : fr \in {"None", "stop"}}
    \cup {Chunk(TRUE, TRUE, "None", rc, c) :
            rc \in {None, Some(<<"r">>)}, c \in {None, Some(<<"a">>), Some(<<"b">>)}}
    \cup {Chunk(TRUE, TRUE, "stop", None, c) : c \in {None, Some(<<"b">>)}}
    \cup {Chunk(TRUE, TRUE, "length", None, Some(<<"a">>))}

\* A stream: the chunks it delivers, and whether iterating past them raises
\* (a transport error) instead of ending.
Responses == {[chunks |-> cs, raises |-> r] : cs \in SeqsUpTo(Chunks, MaxChunks),
                                               r \in BOOLEAN}

(***************************************************************************)
(* process_response: the body of the for loop, on one chunk.               *)
(* st = [reasoning_content, content, finished, brk]                        *)
(***************************************************************************)
\* Variants of the loop body: the finish test before the test of the delta,
\* and the accumulation before the finish test.
LoopBodyFinishFirst(st, chunk) ==
    IF ~chunk.choices THEN st
    ELSE IF chunk.finish_reason = "stop"
         THEN [st EXCEPT !.finished = TRUE, !.brk = TRUE]
    ELSE IF ~chunk.delta THEN st
    ELSE LET rc == IF chunk.reasoning_content.isNone THEN st.reasoning_content
                   ELSE st.reasoning_content \o chunk.reasoning_content.v
             c  == IF chunk.content.isNone THEN st.content
                   ELSE st.content \o chunk.content.v
         IN  [st EXCEPT !.reasoning_content = rc, !.content = c]

LoopBodyAccumulatesFirst(st, chunk) ==
    IF ~chunk.choices THEN st
    ELSE IF ~chunk.delta THEN st
    ELSE LET rc == IF chunk.reasoning_content.isNone THEN st.reasoning_content
                   ELSE st.reasoning_content \o chunk.reasoning_content.v
             c  == IF chunk.content.isNone THEN st.content
                   ELSE st.content \o chunk.content.v
             fin == chunk.finish_reason = "stop"
         IN  [st EXCEPT !.reasoning_content = rc, !.content = c,
                        !.finished = fin, !.brk = fin]

LoopBody(st, chunk) ==
    IF ~chunk.choices THEN st                                   \* continue
    ELSE IF ~chunk.delta THEN st                                \* continue
    ELSE IF chunk.finish_reason = "stop"
         THEN [st EXCEPT !.finished = TRUE, !.brk = TRUE]       \* break
    ELSE LET rc == IF chunk.reasoning_content.isNone THEN st.reasoning_content
                   ELSE st.reasoning_content \o chunk.reasoning_content.v
             c  == IF chunk.content.isNone THEN st.content
                   ELSE st.content \o chunk.content.v
         IN  [st EXCEPT !.reasoning_content = rc, !.content = c]

\* What process_response returns once the loop has ended without raising.
AfterLoop(st) == IF st.finished THEN Some(st.content) ELSE None

PRInitState == [reasoning_content |-> << >>, content |-> << >>,
                finished |-> FALSE, brk |-> FALSE]

RECURSIVE RunLoop(_, _, _)
RunLoop(st, resp, i) ==
    IF st.brk THEN AfterLoop(st)
    ELSE IF i > Len(resp.chunks)
         THEN IF resp.raises THEN None          \* except Exception: return None
              ELSE AfterLoop(st)
    ELSE RunLoop(LoopBody(st, resp.chunks[i]), resp, i + 1)

\* process_response(response, max_retries, attempt) as a function of the stream.
process_response(resp) == RunLoop(PRInitState, resp, 1)

\* The same call, one chunk at a time.
PRState == [reasoning_content |-> reasoning_content, content |-> content,
            finished |-> finished, brk |-> FALSE]

PRConsume ==
    /\ pr_pc = "loop"
    /\ pos < Len(response.chunks)
    /\ LET st == LoopBody(PRState, response.chunks[pos + 1])
       IN  /\ reasoning_content' = st.reasoning_content
           /\ content' = st.content
           /\ finished' = st.finished
           /\ pr_pc' = IF st.brk THEN "after_loop" ELSE "loop"
    /\ pos' = pos + 1
    /\ UNCHANGED <<response, pr_result>>

PRExhaust ==
    /\ pr_pc = "loop"
    /\ pos = Len(response.chunks)
    /\ ~response.raises
    /\ pr_pc' = "after_loop"
    /\ UNCHANGED <<response, pos, reasoning_content, content, finished, pr_result>>

PRRaise ==
    /\ pr_pc = "loop"
    /\ pos = Len(response.chunks)
    /\ response.raises
    /\ pr_pc' = "returned"
    /\ pr_result' = None
    /\ UNCHANGED <<response, pos, reasoning_content, content, finished>>

PRReturn ==
    /\ pr_pc = "after_loop"
    /\ pr_result' = AfterLoop(PRState)
    /\ pr_pc' = "returned"
    /\ UNCHANGED <<response, pos, reasoning_content, content, finished>>

(***************************************************************************)
(* retry(max_retries, retry_delay): one iteration of the wrapper's loop.   *)
(* st = [attempt, pc, result, log]; out is what func does on this call:    *)
(* [raises, value, exc].                                                   *)
(***************************************************************************)
CallEvent(k, how, v) ==
    [ev |-> "call", out |-> how, attempt |-> k, delay |-> 0, value |-> v]
SleepEvent(k, d) ==
    [ev |-> "sleep", out |-> "", attempt |-> k, delay |-> d, value |-> None]

\* Reading an event log.
IsCall(e) == e.ev = "call"
IsSleep(e) == e.ev = "sleep"
CallReturned(e) == e.ev = "call" /\ e.out = "return"
CallRaised(e) == e.ev = "call" /\ e.out \in {"e1", "e2"}
RequestRaised(e) == e.ev = "call" /\ e.out \in {"api_error", "error"}
Count(log, P(_)) == Cardinality({i \in 1..Len(log) : P(log[i])})

Returns(v) == [raises |-> FALSE, value |-> v, exc |-> ""]
Raises(e)  == [raises |-> TRUE, value |-> None, exc |-> e]

\* Variants of the loop iteration of the wrapper.
RetryIterGivesUp(n, delay, st, out) ==
    IF ~out.raises
    THEN [st EXCEPT !.pc = "returned", !.result = out.value,
                    !.log = Append(@, CallEvent(st.attempt, "return", out.value))]
    ELSE [st EXCEPT !.pc = "returned", !.result = None,
                    !.log = Append(@, CallEvent(st.attempt, out.exc, None))]

RetryIterSleepsLast(n, delay, st, out) ==
    IF ~out.raises
    THEN [st EXCEPT !.pc = "returned", !.result = out.value,
                    !.log = Append(@, CallEvent(st.attempt, "return", out.value))]
    ELSE [st EXCEPT !.attempt = @ + 1,
                    !.log = @ \o <<CallEvent(st.attempt, out.exc, None),
                                   SleepEvent(st.attempt, delay)>>]

RetryIter(n, delay, st, out) ==
    IF ~out.raises
    THEN [st EXCEPT !.pc = "returned", !.result = out.value,
                    !.log = Append(@, CallEvent(st.attempt, "return", out.value))]
    ELSE IF st.attempt < n - 1
    THEN [st EXCEPT !.attempt = @ + 1,
                    !.log = @ \o <<CallEvent(st.attempt, out.exc, None),
                                   SleepEvent(st.attempt, delay)>>]
    ELSE [st EXCEPT !.pc = "returned", !.result = None,
                    !.log = Append(@, CallEvent(st.attempt, out.exc, None))]

\* The return None that follows the loop (reached only when range(max_retries)
\* is empty).
RetryLoopEnd(st) == [st EXCEPT !.pc = "returned", !.result = None]

RetryStart == [attempt |-> 0, pc |-> "try", result |-> None, log |-> << >>]

\* A whole wrapper call; outs[k] is what the k-th call of func does.
RECURSIVE RetryRun(_, _, _, _)
RetryRun(n, delay, st, outs) ==
    IF st.pc = "returned" THEN st
    ELSE IF st.attempt >= n THEN RetryLoopEnd(st)
    ELSE RetryRun(n, delay, RetryIter(n, delay, st, outs[st.attempt + 1]), outs)

\* What a wrapped function may do on one call.
FuncValues == {None, Some("df"), Some("empty")}
FuncOutcomes == {Returns(v) : v \in FuncValues} \cup {Raises(e) : e \in {"e1", "e2"}}

RetryState == [attempt |-> attempt, pc |-> r_pc, result |-> r_result, log |-> r_log]

SetRetryState(st) ==
    /\ attempt' = st.attempt
    /\ r_pc' = st.pc
    /\ r_result' = st.result
    /\ r_log' = st.log
    /\ UNCHANGED <<max_retries, retry_delay>>

\* func() returned: the wrapper returns its value.
RetryCallReturns ==
    /\ r_pc = "try"
    /\ attempt < max_retries
    /\ \E v \in FuncValues :
          SetRetryState(RetryIter(max_retries, retry_delay, RetryState, Returns(v)))

\* func() raised: log, then sleep and go on, or give up after the last attempt.
RetryCallRaises ==
    /\ r_pc = "try"
    /\ attempt < max_retries
    /\ \E e \in {"e1", "e2"} :
          SetRetryState(RetryIter(max_retries, retry_delay, RetryState, Raises(e)))

RetryNoAttempt ==
    /\ r_pc = "try"
    /\ attempt >= max_retries
    /\ SetRetryState(RetryLoopEnd(RetryState))

(***************************************************************************)
(* askDeepSeek.  The engine is asked once per loop iteration; the request  *)
(* either raises (the message holds "API" or not) or gives a stream, which *)
(* process_response assembles.                                             *)
(***************************************************************************)
EngineMaxRetries == 5       \* max_retries=5
ApiWait == 5                \* wait_time when "API" is in the message
OtherWait == 2              \* wait_time otherwise

NoDataMsg == <<"NO_VALID_STOCK_DATA_MSG">>        \* the str returned without data
ExhaustedMsg == <<"REQUEST_NOT_FINISHED_MSG">>    \* the str returned after the loop

Stream(cs, r) == [chunks |-> cs, raises |-> r]
ContentChunk(c) == Chunk(TRUE, TRUE, "None", None, Some(<<c>>))
StopChunk == Chunk(TRUE, TRUE, "stop", None, None)

\* The streams the engine answers with in the role and orchestrator runs.
EngineResponses ==
    { Stream(<<ContentChunk("a"), ContentChunk("b"), StopChunk>>, FALSE),
      Stream(<<ContentChunk("b"), StopChunk>>, FALSE),
      Stream(<<ContentChunk("a")>>, FALSE),
      Stream(<<ContentChunk("a")>>, TRUE),
      Stream(<<StopChunk>>, FALSE),
      Stream(<<ContentChunk("a"), Chunk(TRUE, FALSE, "stop", None, None)>>, FALSE) }

RequestRaises(api) == [raises |-> TRUE, api |-> api, resp |-> Stream(<< >>, FALSE)]
RequestStreams(r)  == [raises |-> FALSE, api |-> FALSE, resp |-> r]
EngineOutcomes == {RequestRaises(api) : api \in BOOLEAN}
                  \cup {RequestStreams(r) : r \in EngineResponses}

RequestEvent(k, how) ==
    [ev |-> "call", out |-> how, attempt |-> k, delay |-> 0, value |-> None]

\* if content: (a str is true when it is not empty)
Truthy(c) == ~c.isNone /\ c.v # << >>

\* A variant of the iteration that sleeps before every retry, also after a
\* reply that was not an exception.
AskIterAlwaysSleeps(n, st, out) ==
    IF out.raises
    THEN LET wait_time == IF out.api THEN ApiWait ELSE OtherWait
             ev == RequestEvent(st.attempt, IF out.api THEN "api_error" ELSE "error")
         IN  IF st.attempt < n - 1
             THEN [st EXCEPT !.attempt = @ + 1,
                             !.log = @ \o <<ev, SleepEvent(st.attempt, wait_time)>>]
             ELSE [st EXCEPT !.attempt = @ + 1, !.log = Append(@, ev)]
    ELSE LET c == process_response(out.resp)
         IN  IF Truthy(c)
             THEN [st EXCEPT !.pc = "returned", !.result = c,
                             !.log = Append(@, [RequestEvent(st.attempt, "content")
                                                   EXCEPT !.value = c])]
             ELSE [st EXCEPT !.attempt = @ + 1,
                             !.log = @ \o <<RequestEvent(st.attempt,
                                               IF c.isNone THEN "incomplete" ELSE "empty"),
                                            SleepEvent(st.attempt, OtherWait)>>]

\* One iteration of the for loop of askDeepSeek.  st = [attempt, pc, result, log]
AskIter(n, st, out) ==
    IF out.raises
    THEN LET wait_time == IF out.api THEN ApiWait ELSE OtherWait
             ev == RequestEvent(st.attempt, IF out.api THEN "api_error" ELSE "error")
         IN  IF st.attempt < n - 1
             THEN [st EXCEPT !.attempt = @ + 1,
                             !.log = @ \o <<ev, SleepEvent(st.attempt, wait_time)>>]
             ELSE [st EXCEPT !.attempt = @ + 1, !.log = Append(@, ev)]
    ELSE LET c == process_response(out.resp)
         IN  IF Truthy(c)
             THEN [st EXCEPT !.pc = "returned", !.result = c,
                             !.log = Append(@, [RequestEvent(st.attempt, "content")
                                                   EXCEPT !.value = c])]
             ELSE [st EXCEPT !.attempt = @ + 1,
                             !.log = Append(@, RequestEvent(st.attempt,
                                        IF c.isNone THEN "incomplete" ELSE "empty"))]

\* The loop is over: the fixed message is returned.
AskLoopEnd(st) == [st EXCEPT !.pc = "returned", !.result = Some(ExhaustedMsg)]

\* Before the loop: the data check, then to_json (outside any try).
AskStart(stock_df, to_json_raises) ==
    IF stock_df.isNone \/ stock_df.v = "empty"
    THEN [attempt |-> 0, pc |-> "returned", result |-> Some(NoDataMsg), log |-> << >>]
    ELSE IF to_json_raises
    THEN [attempt |-> 0, pc |-> "raised", result |-> None, log |-> << >>]
    ELSE [attempt |-> 0, pc |-> "loop", result |-> None, log |-> << >>]

AskState == [attempt |-> ask_attempt, pc |-> ask_pc, result |-> ask_result,
             log |-> ask_log]

SetAskState(st) ==
    /\ ask_attempt' = st.attempt
    /\ ask_pc' = st.pc
    /\ ask_result' = st.result
    /\ ask_log' = st.log
    /\ UNCHANGED ask_max

AskBegin ==
    /\ ask_pc = "start"
    /\ \E df \in FuncValues, tj \in BOOLEAN : SetAskState(AskStart(df, tj))

AskAttempt ==
    /\ ask_pc = "loop"
    /\ ask_attempt < ask_max
    /\ \E out \in EngineOutcomes : SetAskState(AskIter(ask_max, AskState, out))

AskExhausted ==
    /\ ask_pc = "loop"
    /\ ask_attempt >= ask_max
    /\ SetAskState(AskLoopEnd(AskState))

AskIdle ==
    /\ ask_max = 0
    /\ ask_attempt = 0
    /\ ask_pc = "idle"
    /\ ask_result = None
    /\ ask_log = << >>

(***************************************************************************)
(* CacheManager.  A cache path is a (symbol, data_type) pair; the file at  *)
(* a path holds a pickled payload, or bytes that do not unpickle, and has  *)
(* a modification time.                                                    *)
(***************************************************************************)
ExpiryHours == 24           \* expiry_hours: int = 24
SecondsPerHour == 3600      \* expiry_hours * 3600
TickSeconds == (ExpiryHours * SecondsPerHour) \div 2    \* the clock advances by half a TTL

Symbols == {"300750", "600000"}
CachePaths == {<<sym, "fund_flow">> : sym \in Symbols}   \* get_cache_path
Payloads == {"d1", "d2"}

NoFile == [exists |-> FALSE, payload |-> "", readable |-> FALSE, st_mtime |-> 0]
File(d, t) == [exists |-> TRUE, payload |-> d, readable |-> TRUE, st_mtime |-> t]
BrokenFile(t) == [exists |-> TRUE, payload |-> "", readable |-> FALSE, st_mtime |-> t]

\* load_cache(symbol, data_type, expiry_hours): [ret, file, raises], the
\* value returned, the file left at the path and whether the call raised.
\* stat and unlink are outside the try block: unlink_ok = FALSE is an expired
\* file that cannot be removed (unlink raises, the file stays).
load_cache(f, t, expiry_hours, unlink_ok) ==
    IF ~f.exists THEN [ret |-> None, file |-> f, raises |-> FALSE]
    ELSE IF t - f.st_mtime > expiry_hours * SecondsPerHour
         THEN IF unlink_ok
              THEN [ret |-> None, file |-> NoFile, raises |-> FALSE]    \* unlink
              ELSE [ret |-> None, file |-> f, raises |-> TRUE]
    ELSE IF f.readable THEN [ret |-> Some(f.payload), file |-> f, raises |-> FALSE]
    ELSE [ret |-> None, file |-> f, raises |-> FALSE]           \* except: None

\* A variant of save_cache that leaves a readable file as it is.
save_cacheKeepsOld(f, data, t, how) ==
    IF f.exists /\ f.readable THEN f
    ELSE IF how = "ok" THEN File(data, t)
    ELSE IF how = "dump_fails" THEN BrokenFile(t)
    ELSE f

\* save_cache(data, symbol, data_type): the file left at the path.  how is
\* "ok", "open_fails" (nothing is written) or "dump_fails" (open truncated
\* the file and pickle.dump raised); both failures are logged and swallowed.
save_cache(f, data, t, how) ==
    IF how = "ok" THEN File(data, t)
    ELSE IF how = "dump_fails" THEN BrokenFile(t)
    ELSE f

SaveOutcomes == {"ok", "open_fails", "dump_fails"}

LoadOp(path, pre, r) ==
    [op |-> "load", path |-> path, pre |-> pre, ret |-> r.ret, at |-> now,
     how |-> "", raised |-> r.raises]
SaveOp(path, pre, d, how) ==
    [op |-> "save", path |-> path, pre |-> pre, ret |-> Some(d), at |-> now,
     how |-> how, raised |-> FALSE]
NoOp == [op |-> "none", path |-> <<"", "">>, pre |-> NoFile, ret |-> None, at |-> 0,
         how |-> "", raised |-> FALSE]

\* What is kept of a save_cache call: its outcome, the payload, the time and
\* the payload it was written over ("" when there was no readable file).
SaveNote(pre, d, how) ==
    [op |-> "save", how |-> how, ret |-> Some(d), at |-> now,
     over |-> IF pre.exists /\ pre.readable THEN pre.payload ELSE ""]
NoSave == [op |-> "none", how |-> "", ret |-> None, at |-> 0, over |-> ""]

LoadCache ==
    \E path \in CachePaths, unlink_ok \in BOOLEAN :
        LET r == load_cache(files[path], now, ExpiryHours, unlink_ok)
        IN  /\ files' = [files EXCEPT ![path] = r.file]
            /\ last_op' = LoadOp(path, files[path], r)
            /\ UNCHANGED <<now, last_save>>

SaveCache ==
    \E path \in CachePaths, d \in Payloads, how \in SaveOutcomes :
        /\ files' = [files EXCEPT ![path] = save_cache(files[path], d, now, how)]
        /\ last_op' = SaveOp(path, files[path], d, how)
        /\ last_save' = [last_save EXCEPT ![path] = SaveNote(files[path], d, how)]
        /\ UNCHANGED now

Tick ==
    /\ now < MaxTicks * TickSeconds
    /\ now' = now + TickSeconds
    /\ last_op' = NoOp
    /\ UNCHANGED <<files, last_save>>

CacheIdle ==
    /\ files = [path \in CachePaths |-> NoFile]
    /\ now = 0
    /\ last_op = NoOp
    /\ last_save = [path \in CachePaths |-> NoSave]

(***************************************************************************)
(* The role agents.  Roles in the order of the orchestrator:               *)
(* 1 phase hunter, 2 volume detective, 3 spring hunter, 4 target engineer, *)
(* 5 strength commander.  A dict returned by a role is a record of the     *)
(* model: keys is its key set, fields its role specific entries.           *)
(***************************************************************************)
NumRoles == 5
Roles == 1..NumRoles
RoleNames == <<"phase_hunter", "volume_detective", "spring_hunter",
               "target_engineer", "strength_commander">>

FetchMaxRetries == 3        \* @retry(max_retries=3, retry_delay=1)
FetchRetryDelay == 1
DefaultConfidence == 50

CommonKeys == {"role", "signal", "confidence", "reason", "_debug_reasoning"}

\* The role specific entries of the default dict of each role.
RoleFields(i) ==
    CASE i = 1 -> ("phase_score" :> "3" @@ "key_structures" :> "[]"
                   @@ "market_impact" :> "False" @@ "stop_loss" :> "0.00")
      [] i = 2 -> ("effort_result_ratio" :> "0.00" @@ "anomalies" :> "[]"
                   @@ "institution_check" :> "no_data" @@ "risk_warning" :> "False")
      [] i = 3 -> ("key_events" :> "[]" @@ "event_verified" :> "False"
                   @@ "failure_risk" :> "False")
      [] i = 4 -> ("cause_space" :> "0.00" @@ "k_value" :> "1.0"
                   @@ "target_price" :> "0.00" @@ "reward_risk" :> "0.0"
                   @@ "executable" :> "False")
      [] i = 5 -> ("relative_strength_rs" :> "0.00" @@ "sector_sync" :> "False"
                   @@ "fund_flow" :> "no_data" @@ "score_adjust" :> "keep")

RoleKeys(i) == CommonKeys \cup DOMAIN RoleFields(i)

Error(type, msg) == [type |-> type, msg |-> msg]
NoError == Error("", "")
NoDataError == Error("ValueError", "no_stock_data")     \* raise ValueError(...)
RowKeyError == Error("KeyError", "item")                \* row['item'] of a bad frame
ToJsonError == Error("TypeError", "to_json")            \* stock_df.to_json raises
HandlerError == Error("OSError", "print")               \* raised inside a handler

NoFields == [k \in {} |-> ""]

\* The default dict a role returns from an except branch; stage names the
\* branch: "ai" (AI call failed), "analyze" (outer handler of analyze) or
\* "run" (handler of run_<role>_agent).
Fallback(i, stage, err) ==
    [kind |-> "dict", keys |-> RoleKeys(i), role |-> RoleNames[i],
     signal |-> "neutral", confidence |-> DefaultConfidence,
     fields |-> RoleFields(i), reason |-> <<stage, err.msg>>,
     debug |-> <<err.msg, err.type>>, text |-> << >>]

\* {"error": str(e)}
ErrorDict(err) ==
    [kind |-> "dict", keys |-> {"error"}, role |-> "", signal |-> "",
     confidence |-> 0, fields |-> ("error" :> err.msg), reason |-> <<"", "">>,
     debug |-> << >>, text |-> << >>]

\* A str returned by askDeepSeek and passed on as the role's result.  The
\* assembled reply of the engine is taken to be the JSON object the prompt
\* asks for, with the keys of the role; the two fixed messages are plain text.
TextRecord(i, c) ==
    [kind |-> "str",
     keys |-> IF c \in {ExhaustedMsg, NoDataMsg} THEN {} ELSE RoleKeys(i),
     role |-> "", signal |-> "", confidence |-> 0, fields |-> NoFields,
     reason |-> <<"", "">>, debug |-> << >>, text |-> c]

NoRecord == TextRecord(1, << >>)

\* The handler of run_<role>_agent.
RunFallback(i, err) == IF i = 2 THEN ErrorDict(err) ELSE Fallback(i, "run", err)

(***************************************************************************)
(* StockDataFetcher.get_stock_data.  cache is _cache.get(symbol): None     *)
(* when the symbol is not in _cache, Some("None") when _cache[symbol] is    *)
(* None.  o is what ak.stock_zh_a_hist does on this call: "df", "empty"    *)
(* (an empty frame), "None" (it returns None) or "raise".                  *)
(***************************************************************************)
ProviderOutcomes == {"df", "empty", "None", "raise"}
CacheEntries == {None, Some("df"), Some("empty"), Some("None")}

\* The Python value of a frame tag: the tag "None" is the value None.
Value(tag) == IF tag = "None" THEN None ELSE Some(tag)

\* A variant of the body that keeps only a frame with rows in _cache.
get_stock_data_bodyKeepsData(cache, o) ==
    IF ~cache.isNone THEN [out |-> Returns(Value(cache.v)), cache |-> cache, provider |-> 0]
    ELSE IF o = "raise" THEN [out |-> Returns(None), cache |-> cache, provider |-> 1]
    ELSE [out |-> Returns(Value(o)), cache |-> IF o = "df" THEN Some(o) ELSE cache,
          provider |-> 1]

get_stock_data_body(cache, o) ==
    IF ~cache.isNone THEN [out |-> Returns(Value(cache.v)), cache |-> cache, provider |-> 0]
    ELSE IF o = "raise" THEN [out |-> Returns(None), cache |-> cache, provider |-> 1]
    ELSE [out |-> Returns(Value(o)), cache |-> Some(o), provider |-> 1]

\* The decorated function: script[k] is what the provider does on the k-th
\* call of the body.
get_stock_data(cache, script) ==
    LET outs == [k \in 1..FetchMaxRetries |-> get_stock_data_body(cache, script[k]).out]
        run  == RetryRun(FetchMaxRetries, FetchRetryDelay, RetryStart, outs)
        n    == Count(run.log, IsCall)
    IN  [value |-> run.result,
         cache |-> IF n = 0 THEN cache ELSE get_stock_data_body(cache, script[n]).cache,
         provider_calls |-> IF cache.isNone THEN n ELSE 0,
         log |-> run.log]

(***************************************************************************)
(* analyze, in the phases of its try block.                                *)
(***************************************************************************)
RoleStart(i, cache) ==
    [role |-> i, pc |-> "primary", cache |-> cache, cache_before |-> cache,
     script |-> << >>, stock_data |-> None, provider_calls |-> 0,
     fetch_log |-> << >>, aux_fetches |-> 0, aux_absent |-> {},
     aux_malformed |-> FALSE, prompt |-> "", engine_calls |-> 0,
     engine_log |-> << >>, err |-> NoError, handler_faults |-> 0, via |-> "",
     result |-> NoRecord]

RoleIdle == [RoleStart(1, None) EXCEPT !.pc = "idle"]

Missing(df) == df.isNone \/ df.v = "empty"      \* df is None or df.empty

\* A variant of the first phase without the check of stock_data.
AnalyzePrimaryUnchecked(r, script) ==
    LET f == get_stock_data(r.cache, script)
    IN  [r EXCEPT !.script = script, !.cache = f.cache, !.stock_data = f.value,
                  !.provider_calls = f.provider_calls, !.fetch_log = f.log,
                  !.pc = "aux"]

\* stock_data = get_stock_data(stock_code); raise ValueError when it is missing.
AnalyzePrimary(r, script) ==
    LET f == get_stock_data(r.cache, script)
        r1 == [r EXCEPT !.script = script, !.cache = f.cache, !.stock_data = f.value,
                        !.provider_calls = f.provider_calls, !.fetch_log = f.log]
    IN  IF Missing(f.value)
        THEN [r1 EXCEPT !.pc = "analyze_except", !.err = NoDataError]
        ELSE [r1 EXCEPT !.pc = "aux"]

\* The auxiliary datasets: a is what each fetch gives.  fund_flow, benchmark,
\* industry, intraday: "df", "empty" (an empty frame) or "None"; stock_info:
\* "industry" (a frame with the industry row), "no_industry", "empty", "None"
\* or "malformed" (a frame without the item and value columns).
AuxNames == {"fund_flow", "stock_info", "benchmark", "industry", "intraday"}
AuxOutcomes ==
    [fund_flow : {"df", "empty", "None"},
     stock_info : {"industry", "no_industry", "empty", "None", "malformed"},
     benchmark : {"df", "empty", "None"}, industry : {"df", "empty", "None"},
     intraday : {"df", "empty", "None"}]

HasIndustryData(i) == i \in {2, 4, 5}       \* roles that call get_industry_data
HasIntraday(i) == i \in {2, 3}              \* roles that call get_stock_intraday_data

Absent(v) == v \in {"None", "empty"}        \* v is None or v.empty

\* The datasets a role uses in _build_prompt.
AuxUsed(i) ==
    {"fund_flow", "stock_info", "benchmark"}
        \cup (IF HasIndustryData(i) THEN {"industry"} ELSE {})
        \cup (IF HasIntraday(i) THEN {"intraday"} ELSE {})

\* What _build_prompt gets for dataset d: stock_info is None when the frame is
\* missing (and, in role 1, when collect_stock_info caught an exception);
\* get_industry_data returns None without a fetch when stock_info has no
\* industry entry.
AuxGiven(i, a, d) ==
    CASE d = "stock_info" ->
            IF Absent(a.stock_info) \/ a.stock_info = "malformed" THEN "None"
            ELSE a.stock_info
      [] d = "industry" ->
            IF a.stock_info = "industry" THEN a.industry ELSE "None"
      [] OTHER -> a[d]

AuxAbsent(i, a) == {d \in AuxUsed(i) : Absent(AuxGiven(i, a, d))}

\* A variant in which a role gives up when the fund flow dataset is missing.
AnalyzeAuxRequiresFundFlow(r, a) ==
    IF Absent(a.fund_flow)
    THEN [r EXCEPT !.pc = "analyze_except", !.err = NoDataError, !.aux_fetches = 1,
                   !.aux_absent = {"fund_flow"}]
    ELSE [r EXCEPT !.pc = "engine", !.aux_fetches = 3, !.prompt = "prompt",
                   !.aux_absent = AuxAbsent(r.role, a)]

AnalyzeAux(r, a) ==
    IF a.stock_info = "malformed" /\ r.role # 1
    THEN \* the row loop of analyze raises KeyError (role 1 catches it in
         \* collect_stock_info and goes on with stock_info = None)
         [r EXCEPT !.pc = "analyze_except", !.err = RowKeyError, !.aux_fetches = 2,
                   !.aux_malformed = TRUE]
    ELSE LET n == 3 + (IF HasIndustryData(r.role) /\ a.stock_info = "industry" THEN 1 ELSE 0)
                    + (IF HasIntraday(r.role) THEN 1 ELSE 0)
             absent == AuxAbsent(r.role, a)
             \* role 1 returns an error JSON text from _build_prompt when the
             \* fund flow or the benchmark is missing; analyze sends it
             prompt == IF r.role = 1 /\ ({"fund_flow", "benchmark"} \cap absent # {})
                       THEN "missing_data_json" ELSE "prompt"
         IN  [r EXCEPT !.pc = "engine", !.aux_fetches = n, !.prompt = prompt,
                       !.aux_absent = absent]

\* A whole askDeepSeek call; outs[k] is what the k-th engine request does.
RECURSIVE AskRun(_, _, _)
AskRun(n, st, outs) ==
    IF st.pc # "loop" THEN st
    ELSE IF st.attempt >= n THEN AskLoopEnd(st)
    ELSE AskRun(n, AskIter(n, st, outs[st.attempt + 1]), outs)

\* A variant that turns the reply into a dict before returning it.
AnalyzeEngineParses(r, to_json_raises, outs) ==
    LET st == AskRun(EngineMaxRetries, AskStart(r.stock_data, to_json_raises), outs)
        r1 == [r EXCEPT !.engine_log = st.log, !.engine_calls = 1]
    IN  IF st.pc = "raised"
        THEN [r1 EXCEPT !.pc = "analyze_except", !.err = ToJsonError]
        ELSE [r1 EXCEPT !.pc = "returned", !.via = "reply",
                        !.result = [TextRecord(r.role, st.result.v)
                                       EXCEPT !.kind = "dict", !.text = << >>]]

\* analysis_result = askDeepSeek(...); return analysis_result
AnalyzeEngine(r, to_json_raises, outs) ==
    LET st == AskRun(EngineMaxRetries, AskStart(r.stock_data, to_json_raises), outs)
        r1 == [r EXCEPT !.engine_log = st.log, !.engine_calls = 1]
    IN  IF st.pc = "raised"
        THEN IF r.role \in {1, 2}
             THEN [r1 EXCEPT !.pc = "returned", !.via = "ai_fallback", !.err = ToJsonError,
                             !.result = Fallback(r.role, "ai", ToJsonError)]
             ELSE [r1 EXCEPT !.pc = "analyze_except", !.err = ToJsonError]
        ELSE [r1 EXCEPT !.pc = "returned", !.via = "reply",
                        !.result = TextRecord(r.role, st.result.v)]

\* except Exception as e: of analyze.  fault: the handler itself raises.
AnalyzeExcept(r, fault) ==
    IF fault
    THEN [r EXCEPT !.pc = "run_except", !.err = HandlerError, !.handler_faults = 1]
    ELSE [r EXCEPT !.pc = "returned", !.via = "analyze_fallback",
                   !.result = Fallback(r.role, "analyze", r.err)]

\* except Exception as e: of run_<role>_agent.
RunExcept(r, fault) ==
    IF fault
    THEN [r EXCEPT !.pc = "raised", !.handler_faults = 2]
    ELSE [r EXCEPT !.pc = "returned", !.via = "run_fallback",
                   !.result = RunFallback(r.role, r.err)]

\* The streams and request outcomes drawn for a role run.
PrimaryScripts == [1..FetchMaxRetries -> ProviderOutcomes]
IncompleteStream == Stream(<<ContentChunk("a")>>, FALSE)
ReplyStream == Stream(<<ContentChunk("a"), ContentChunk("b"), StopChunk>>, FALSE)
EngineScripts ==
    [1..EngineMaxRetries -> {RequestRaises(TRUE), RequestStreams(IncompleteStream),
                             RequestStreams(ReplyStream)}]
    \cup {[k \in 1..EngineMaxRetries |-> o] : o \in EngineOutcomes}

EngineRuns == [to_json_raises : BOOLEAN, outs : EngineScripts]

\* The outcomes drawn for a role that runs inside the orchestrator.
GoodAux == [fund_flow |-> "df", stock_info |-> "industry", benchmark |-> "df",
            industry |-> "df", intraday |-> "df"]
OrchPrimaryScripts == {[k \in 1..FetchMaxRetries |-> o] : o \in ProviderOutcomes}
OrchAuxOutcomes == {GoodAux, [GoodAux EXCEPT !.stock_info = "malformed"]}
OrchEngineRuns ==
    { [to_json_raises |-> FALSE, outs |-> [k \in 1..EngineMaxRetries |-> RequestStreams(ReplyStream)]],
      [to_json_raises |-> FALSE, outs |-> [k \in 1..EngineMaxRetries |-> RequestStreams(IncompleteStream)]],
      [to_json_raises |-> TRUE, outs |-> [k \in 1..EngineMaxRetries |-> RequestStreams(ReplyStream)]] }

RolePrimaryOver(S) ==
    /\ rs.pc = "primary"
    /\ \E script \in S : rs' = AnalyzePrimary(rs, script)

RoleAuxOver(S) ==
    /\ rs.pc = "aux"
    /\ \E a \in S : rs' = AnalyzeAux(rs, a)

RoleEngineOver(S) ==
    /\ rs.pc = "engine"
    /\ \E run \in S : rs' = AnalyzeEngine(rs, run.to_json_raises, run.outs)

RoleAnalyzeExcept ==
    /\ rs.pc = "analyze_except"
    /\ \E fault \in BOOLEAN : rs' = AnalyzeExcept(rs, fault)

RoleRunExcept ==
    /\ rs.pc = "run_except"
    /\ \E fault \in BOOLEAN : rs' = RunExcept(rs, fault)

RolePrimary == RolePrimaryOver(PrimaryScripts)
RoleAux == RoleAuxOver(AuxOutcomes)
RoleEngine == RoleEngineOver(EngineRuns)

(***************************************************************************)
(* run_wyckoff_multi_agent_analysis.                                       *)
(***************************************************************************)
\* try: result = run_<role>_agent(stock_code); expert_reports.append(result)
\* except Exception as e: print(...)
CollectRole(reports, r) ==
    IF r.pc = "returned" THEN Append(reports, r.result) ELSE reports

\* A variant in which a raising role ends the collection.
NextAfterRoleAborts(i, r) == IF r.pc = "raised" THEN NumRoles + 1 ELSE i + 1

\* A variant in which a role whose call raised is called again.
NextAfterRoleRepeats(i, r) == IF r.pc = "raised" THEN i ELSE i + 1

\* The try block that follows try block i.
NextAfterRole(i, r) == i + 1

\* run_chief_strategist_agent(expert_reports): the consensus, or an exception.
Consensus(reports) == [empty |-> FALSE, over |-> Len(reports)]
EmptyDict == [empty |-> TRUE, over |-> 0]
ChiefStrategist(reports, raises) ==
    IF raises THEN Raises("chief_strategist") ELSE Returns(Consensus(reports))

\* A variant in which the value of the failed call is kept.
AggregatorResultUnset(out) == out.value

\* try: chief_strategist_result = run_chief_strategist_agent(expert_reports)
\* except Exception as e: chief_strategist_result = {}
AggregatorResult(out) == IF out.raises THEN EmptyDict ELSE out.value

\* A variant in which the batch depends on the file having been written.
ReturnValueNeedsFile(batch, save_ok) == IF save_ok THEN batch ELSE [assembled |-> FALSE]

\* return final_result, after the try block that writes the file.
ReturnValue(batch, save_ok) == batch

NoBatch == [assembled |-> FALSE]
\* A variant in which no batch is built without a strategy.
BatchNeedsStrategy(code, reports, strategy) ==
    IF strategy.empty THEN NoBatch
    ELSE [stock_code |-> code, analysis_time |-> "now", expert_reports |-> reports,
          strategy |-> strategy]

Batch(code, reports, strategy) ==
    [stock_code |-> code, analysis_time |-> "now", expert_reports |-> reports,
     strategy |-> strategy]

\* result = run_<role>_agent(stock_code): the call is entered.
OrchCallRole ==
    /\ o_pc = "roles"
    /\ rs' = RoleStart(cur, rs.cache)
    /\ run_count' = [run_count EXCEPT ![cur] = @ + 1]
    /\ o_pc' = "in_role"
    /\ UNCHANGED <<stock_code, cur, expert_reports, report_roles, raised_roles,
                   agg_calls, agg_input, agg_roles, agg_raised,
                   chief_strategist_result, final_result, saved, returned>>

\* The phases of the role called by the orchestrator.
UnchangedOrch == UNCHANGED orchVars
OrchRolePrimary == o_pc = "in_role" /\ RolePrimaryOver(OrchPrimaryScripts) /\ UnchangedOrch
OrchRoleAux == o_pc = "in_role" /\ RoleAuxOver(OrchAuxOutcomes) /\ UnchangedOrch
OrchRoleEngine == o_pc = "in_role" /\ RoleEngineOver(OrchEngineRuns) /\ UnchangedOrch
OrchRoleAnalyzeExcept == o_pc = "in_role" /\ RoleAnalyzeExcept /\ UnchangedOrch
OrchRoleRunExcept == o_pc = "in_role" /\ RoleRunExcept /\ UnchangedOrch

\* The call returned (append, print) or raised (print); on to the next try block.
OrchCollect ==
    /\ o_pc = "in_role"
    /\ rs.pc \in {"returned", "raised"}
    /\ expert_reports' = CollectRole(expert_reports, rs)
    /\ report_roles' = IF rs.pc = "returned" THEN Append(report_roles, cur)
                       ELSE report_roles
    /\ raised_roles' = IF rs.pc = "raised" THEN raised_roles \cup {cur}
                       ELSE raised_roles
    /\ cur' = NextAfterRole(cur, rs)
    /\ o_pc' = IF cur' > NumRoles THEN "aggregate" ELSE "roles"
    /\ UNCHANGED <<rs, stock_code, run_count, agg_calls, agg_input, agg_roles,
                   agg_raised, chief_strategist_result, final_result, saved, returned>>

OrchAggregate ==
    /\ o_pc = "aggregate"
    /\ \E raises \in BOOLEAN :
          /\ agg_raised' = raises
          /\ chief_strategist_result' =
                 AggregatorResult(ChiefStrategist(expert_reports, raises))
    /\ agg_calls' = agg_calls + 1
    /\ agg_input' = expert_reports
    /\ agg_roles' = report_roles
    /\ o_pc' = "assemble"
    /\ UNCHANGED <<rs, stock_code, cur, expert_reports, report_roles, run_count,
                   raised_roles, final_result, saved, returned>>

OrchAssemble ==
    /\ o_pc = "assemble"
    /\ final_result' = Batch(stock_code, expert_reports, chief_strategist_result)
    /\ o_pc' = "save"
    /\ UNCHANGED <<rs, stock_code, cur, expert_reports, report_roles, run_count,
                   raised_roles, agg_calls, agg_input, agg_roles, agg_raised,
                   chief_strategist_result, saved, returned>>

\* json.dump to the result file (a failure is printed), then return final_result.
OrchSaveAndReturn ==
    /\ o_pc = "save"
    /\ \E ok \in BOOLEAN :
          /\ saved' = ok
          /\ returned' = ReturnValue(final_result, ok)
    /\ o_pc' = "done"
    /\ UNCHANGED <<rs, stock_code, cur, expert_reports, report_roles, run_count,
                   raised_roles, agg_calls, agg_input, agg_roles, agg_raised,
                   chief_strategist_result, final_result>>

(***************************************************************************)
(* main().  A str is a sequence of characters; the characters drawn are a  *)
(* decimal digit, a digit outside ASCII (str.isdigit is true for it), a    *)
(* letter and a blank.                                                     *)
(***************************************************************************)
CodeLen == 6                \* len(stock_symbol) != 6
InputChars == {"1", "fullwidth_1", "x", " "}
IsSpace(c) == c = " "
DecimalDigits == {"0", "1", "2", "3", "4", "5", "6", "7", "8", "9"}
IsDigitChar(c) == c \in DecimalDigits \cup {"fullwidth_1"}

RECURSIVE LStrip(_)
LStrip(s) == IF s # << >> /\ IsSpace(Head(s)) THEN LStrip(Tail(s)) ELSE s
RECURSIVE RStrip(_)
RStrip(s) ==
    IF s # << >> /\ IsSpace(s[Len(s)]) THEN RStrip(SubSeq(s, 1, Len(s) - 1)) ELSE s
strip(s) == RStrip(LStrip(s))                                   \* str.strip()
isdigit(s) == s # << >> /\ \A i \in 1..Len(s) : IsDigitChar(s[i])  \* str.isdigit()

\* A variant of the test of main without the length.
InvalidSymbolAnyLength(sym) == sym = << >> \/ ~isdigit(sym)

\* not stock_symbol or not stock_symbol.isdigit() or len(stock_symbol) != 6
InvalidSymbol(sym) == sym = << >> \/ ~isdigit(sym) \/ Len(sym) # CodeLen

MainInputs == SeqsUpTo(InputChars, MaxInputLen)

\* print the error; return
MainReject ==
    /\ m_pc = "input"
    /\ InvalidSymbol(strip(m_input))
    /\ stock_symbol' = strip(m_input)
    /\ m_pc' = "rejected"
    /\ UNCHANGED <<m_input, orchVars>>

\* result = run_wyckoff_multi_agent_analysis(stock_symbol): the orchestrator
\* is entered with stock_symbol as its stock_code (its steps are those of Spec).
MainCall ==
    /\ m_pc = "input"
    /\ ~InvalidSymbol(strip(m_input))
    /\ stock_symbol' = strip(m_input)
    /\ m_pc' = "called"
    /\ stock_code' = strip(m_input)
    /\ o_pc' = "roles"
    /\ cur' = 1
    /\ UNCHANGED <<m_input, expert_reports, report_roles, run_count, raised_roles,
                   agg_calls, agg_input, agg_roles, agg_raised,
                   chief_strategist_result, final_result, saved, returned>>

MainIdle ==
    /\ m_input = << >>
    /\ m_pc = "idle"
    /\ stock_symbol = << >>

(***************************************************************************)
(* get_market_benchmark_data(stock_code) of the five roles, and            *)
(* IndexDataFetcher.get_index_data.                                        *)
(***************************************************************************)
CodeChars == {"0", "2", "3", "6", "9"}
StockCodes == SeqsUpTo(CodeChars, MaxCodeLen)

startswith(s, prefix) ==
    Len(s) >= Len(prefix) /\ SubSeq(s, 1, Len(prefix)) = prefix

HS300_CODE == <<"0", "0", "0", "3", "0", "0">>                  \* "000300"
GROWTH_ENTERPRISE_CODE == <<"3", "9", "9", "0", "0", "6">>      \* "399006"

\* The if / elif / else of each role's method.
PhaseHunterIndexCode(stock_code_) ==
    IF startswith(stock_code_, <<"6">>) \/ startswith(stock_code_, <<"0", "0", "0">>)
    THEN HS300_CODE
    ELSE IF startswith(stock_code_, <<"3">>) \/ startswith(stock_code_, <<"0", "0", "2">>)
    THEN GROWTH_ENTERPRISE_CODE
    ELSE HS300_CODE

VolumeDetectiveIndexCode(stock_code_) ==
    IF startswith(stock_code_, <<"6">>) \/ startswith(stock_code_, <<"0", "0", "0">>)
    THEN HS300_CODE
    ELSE IF startswith(stock_code_, <<"3">>) \/ startswith(stock_code_, <<"0", "0", "2">>)
    THEN GROWTH_ENTERPRISE_CODE
    ELSE HS300_CODE

SpringHunterIndexCode(stock_code_) ==
    IF startswith(stock_code_, <<"6">>) \/ startswith(stock_code_, <<"0", "0", "0">>)
    THEN HS300_CODE
    ELSE IF startswith(stock_code_, <<"3">>) \/ startswith(stock_code_, <<"0", "0", "2">>)
    THEN GROWTH_ENTERPRISE_CODE
    ELSE HS300_CODE

TargetEngineerIndexCode(stock_code_) ==
    IF startswith(stock_code_, <<"6">>) \/ startswith(stock_code_, <<"0", "0", "0">>)
    THEN HS300_CODE
    ELSE IF startswith(stock_code_, <<"3">>) \/ startswith(stock_code_, <<"0", "0", "2">>)
    THEN GROWTH_ENTERPRISE_CODE
    ELSE HS300_CODE

StrengthCommanderIndexCode(stock_code_) ==
    IF startswith(stock_code_, <<"6">>) \/ startswith(stock_code_, <<"0", "0", "0">>)
    THEN HS300_CODE
    ELSE IF startswith(stock_code_, <<"3">>) \/ startswith(stock_code_, <<"0", "0", "2">>)
    THEN GROWTH_ENTERPRISE_CODE
    ELSE HS300_CODE

\* A variant of the rule that tests the second branch first.
IndexCodeGrowthFirst(i, stock_code_) ==
    IF startswith(stock_code_, <<"3">>) \/ startswith(stock_code_, <<"0", "0">>)
    THEN GROWTH_ENTERPRISE_CODE
    ELSE HS300_CODE

IndexCode(i, stock_code_) ==
    CASE i = 1 -> PhaseHunterIndexCode(stock_code_)
      [] i = 2 -> VolumeDetectiveIndexCode(stock_code_)
      [] i = 3 -> SpringHunterIndexCode(stock_code_)
      [] i = 4 -> TargetEngineerIndexCode(stock_code_)
      [] i = 5 -> StrengthCommanderIndexCode(stock_code_)

\* get_index_data: the symbol passed to ak.stock_zh_index_daily, and the body
\* of the decorated function; o is what the provider does: "df", "empty",
\* "None" or "raise".  The body returns None for all but "df".
IndexOutcomes == {"df", "empty", "None", "raise"}
ProviderSymbol(symbol) ==
    IF startswith(symbol, <<"0">>) THEN <<"s", "h">> \o symbol
    ELSE IF startswith(symbol, <<"3">>) THEN <<"s", "z">> \o symbol
    ELSE symbol
get_index_data_body(symbol, o) ==
    IF o = "df" THEN Returns(Some(ProviderSymbol(symbol))) ELSE Returns(None)
get_index_data(symbol, script) ==
    RetryRun(FetchMaxRetries, FetchRetryDelay, RetryStart,
             [k \in 1..FetchMaxRetries |-> get_index_data_body(symbol, script[k])])

IndexScripts == [1..FetchMaxRetries -> IndexOutcomes]
NoBenchEnv == [fault |-> FALSE, script |-> << >>, calls |-> 0]

\* The try block up to index_code; fault: the block raises before the fetch
\* and the except branch returns None.
BenchResolve ==
    /\ b_pc = "call"
    /\ \E i \in Roles, fault \in BOOLEAN :
          /\ b_role' = i
          /\ b_env' = [b_env EXCEPT !.fault = fault]
          /\ IF fault
             THEN /\ b_pc' = "done"
                  /\ b_result' = None
                  /\ UNCHANGED b_index
             ELSE /\ b_pc' = "fetch"
                  /\ b_index' = IndexCode(i, b_code)
                  /\ UNCHANGED b_result
    /\ UNCHANGED b_code

\* index_data = IndexDataFetcher.get_index_data(index_code); return index_data
BenchFetch ==
    /\ b_pc = "fetch"
    /\ \E script \in IndexScripts :
          LET run == get_index_data(b_index, script)
          IN  /\ b_result' = run.result
              /\ b_env' = [b_env EXCEPT !.script = script,
                                        !.calls = Count(run.log, IsCall)]
    /\ b_pc' = "done"
    /\ UNCHANGED <<b_code, b_role, b_index>>

BenchIdle ==
    /\ b_code = << >>
    /\ b_pc = "idle"
    /\ b_role = 0
    /\ b_index = << >>
    /\ b_result = None
    /\ b_env = NoBenchEnv

(***************************************************************************)
(* Two calls of CacheManager on one cache path at the same time.  The      *)
(* code takes no lock and writes the cache file in place, so each call is  *)
(* a sequence of file-system steps that interleave with the other call's.  *)
(* A file is a name bound to an inode; an open file keeps its inode.  A    *)
(* payload is written and read in two blocks (the buffered file flushes a  *)
(* pickle larger than its buffer in more than one write).                  *)
(***************************************************************************)
Procs == {1, 2}
Payload(w) ==
    CASE w = 0 -> <<"p1", "p2">>        \* the entry stored before the calls
      [] w = 1 -> <<"a1", "a2">>
      [] w = 2 -> <<"b1", "b2">>
Writers == {0} \cup Procs
PayloadLen == Len(Payload(0))

NoCacheFile == [name |-> 0, expired |-> FALSE, inodes |-> << >>]
StoredCacheFile(expired) == [name |-> 1, expired |-> expired, inodes |-> <<Payload(0)>>]

ProcStart(kind) ==
    [kind |-> kind, pc |-> IF kind = "load" THEN "exists" ELSE "open",
     fd |-> 0, off |-> 0, buf |-> << >>, ret |-> None, raised |-> ""]

\* write(block) at offset off of an inode's content; a gap reads as holes.
RECURSIVE WriteAt(_, _, _)
WriteAt(data, off, block) ==
    IF off < Len(data) THEN [data EXCEPT ![off + 1] = block]
    ELSE IF off = Len(data) THEN Append(data, block)
    ELSE WriteAt(Append(data, "hole"), off, block)

\* pickle.load of what was read: the object of writer w when the bytes are
\* w's whole payload; a short stream raises (EOFError); bytes of more than
\* one writer raise or unpickle to some other object.
Unpickled(buf) ==
    IF \E w \in Writers : buf = Payload(w)
    THEN {[raises |-> FALSE, value |-> Some(buf)]}
    ELSE IF Len(buf) < PayloadLen
    THEN {[raises |-> TRUE, value |-> None]}
    ELSE {[raises |-> TRUE, value |-> None], [raises |-> FALSE, value |-> Some(buf)]}

ProcDone(p, ret, raised) ==
    c_procs' = [c_procs EXCEPT ![p].pc = "done", ![p].ret = ret, ![p].raised = raised]

\* if not cache_path.exists(): return None
LoadExists(p) ==
    /\ c_procs[p].kind = "load" /\ c_procs[p].pc = "exists"
    /\ IF c_file.name = 0
       THEN ProcDone(p, None, "")
       ELSE c_procs' = [c_procs EXCEPT ![p].pc = "stat"]
    /\ UNCHANGED c_file

\* cache_path.stat().st_mtime, outside the try block
LoadStat(p) ==
    /\ c_procs[p].kind = "load" /\ c_procs[p].pc = "stat"
    /\ IF c_file.name = 0
       THEN ProcDone(p, None, "FileNotFoundError")
       ELSE c_procs' = [c_procs EXCEPT ![p].pc = IF c_file.expired THEN "unlink" ELSE "open"]
    /\ UNCHANGED c_file

\* cache_path.unlink(); return None, outside the try block
LoadUnlink(p) ==
    /\ c_procs[p].kind = "load" /\ c_procs[p].pc = "unlink"
    /\ IF c_file.name = 0
       THEN /\ ProcDone(p, None, "FileNotFoundError")
            /\ UNCHANGED c_file
       ELSE /\ ProcDone(p, None, "")
            /\ c_file' = [c_file EXCEPT !.name = 0]

\* with open(cache_path, 'rb') as f, inside the try block
LoadOpen(p) ==
    /\ c_procs[p].kind = "load" /\ c_procs[p].pc = "open"
    /\ IF c_file.name = 0
       THEN ProcDone(p, None, "")
       ELSE c_procs' = [c_procs EXCEPT ![p].pc = "read", ![p].fd = c_file.name]
    /\ UNCHANGED c_file

\* pickle.load(f): one block is read; at the end of the file, or with the
\* whole payload read, the object is built or the exception is caught.
LoadRead(p) ==
    /\ c_procs[p].kind = "load" /\ c_procs[p].pc = "read"
    /\ LET pr == c_procs[p]
           data == c_file.inodes[pr.fd]
       IN  IF pr.off < Len(data) /\ pr.off < PayloadLen
           THEN c_procs' = [c_procs EXCEPT ![p].off = pr.off + 1,
                                           ![p].buf = Append(pr.buf, data[pr.off + 1])]
           ELSE \E u \in Unpickled(pr.buf) : ProcDone(p, u.value, "")
    /\ UNCHANGED c_file

\* with open(cache_path, 'wb') as f: the file is created or truncated
SaveOpen(p) ==
    /\ c_procs[p].kind = "save" /\ c_procs[p].pc = "open"
    /\ IF c_file.name = 0
       THEN /\ c_file' = [name |-> Len(c_file.inodes) + 1, expired |-> FALSE,
                          inodes |-> Append(c_file.inodes, << >>)]
            /\ c_procs' = [c_procs EXCEPT ![p].pc = "write", ![p].fd = Len(c_file.inodes) + 1]
       ELSE /\ c_file' = [c_file EXCEPT !.expired = FALSE, !.inodes[c_file.name] = << >>]
            /\ c_procs' = [c_procs EXCEPT ![p].pc = "write", ![p].fd = c_file.name]

\* pickle.dump(data, f): the next block goes to the file at the position of
\* this open file; after the last block the file is closed.
SaveWrite(p) ==
    /\ c_procs[p].kind = "save" /\ c_procs[p].pc = "write"
    /\ LET pr == c_procs[p]
       IN  /\ c_file' = [c_file EXCEPT
                 !.inodes[pr.fd] = WriteAt(@, pr.off, Payload(p)[pr.off + 1]),
                 !.expired = IF c_file.name = pr.fd THEN FALSE ELSE @]
           /\ c_procs' = [c_procs EXCEPT
                 ![p].off = pr.off + 1,
                 ![p].pc = IF pr.off + 1 = PayloadLen THEN "done" ELSE "write"]

ConcIdle ==
    /\ c_file = NoCacheFile
    /\ c_procs = << >>

(***************************************************************************)
(* The retry-decorated fetchers.  Each body is: the statements before its  *)
(* try block, then the provider call and what follows it inside the try    *)
(* block, whose except branch returns None.  One call of the body gives    *)
(* [out, provider, saved, mem, file]: what the body returns or raises, the *)
(* outcome of the provider call ("not_called" without one), whether        *)
(* save_cache was called, and _cache and the cache file afterwards.        *)
(***************************************************************************)
Fetchers == {"stock_data", "fund_flow", "index", "industry_board", "stock_info",
             "intraday"}
FundFlowOutcomes == ProviderOutcomes \cup {"no_date"}   \* a frame without the date column
NewPayload == "d_new"                                   \* the frame the provider returns

\* _filter_data_by_date_range(df, date_range): the rows of df in the range.
Filtered(d) ==
    CASE d = "d1" -> "d1_in_range"
      [] d = "d2" -> "d2_in_range"
      [] d = NewPayload -> "d_new_in_range"

BodyResult(out, o, sv, mem, file) ==
    [out |-> out, provider |-> o, saved |-> sv, mem |-> mem, file |-> file]

\* StockDataFetcher.get_stock_data: the cache test, get_date_range (outside
\* the try block), then the try block.
StockDataBody(mem, file, env) ==
    IF ~mem.isNone THEN BodyResult(Returns(Value(mem.v)), "not_called", FALSE, mem, file)
    ELSE IF env.pre_raises THEN BodyResult(Raises("e1"), "not_called", FALSE, mem, file)
    ELSE LET b == get_stock_data_body(mem, env.o)
         IN  BodyResult(b.out, env.o, FALSE, b.cache, file)

\* A variant of the fund-flow body that caches the provider's frame before
\* looking at it.
FundFlowBodySavesFirst(mem, file, t, market, env) ==
    IF env.pre_raises THEN BodyResult(Raises("e1"), "not_called", FALSE, mem, file)
    ELSE LET l == load_cache(file, t, ExpiryHours, env.unlink_ok)
         IN  IF l.raises THEN BodyResult(Raises("e2"), "not_called", FALSE, mem, l.file)
             ELSE IF ~l.ret.isNone
             THEN BodyResult(Returns(Some(Filtered(l.ret.v))), "not_called", FALSE, mem, l.file)
             ELSE IF ~market
             THEN BodyResult(Returns(None), "not_called", FALSE, mem, l.file)
             ELSE IF env.o = "raise"
             THEN BodyResult(Returns(None), env.o, FALSE, mem, l.file)
             ELSE IF env.o # "df"
             THEN BodyResult(Returns(None), env.o, TRUE, mem,
                             save_cache(l.file, NewPayload, t, env.how))
             ELSE BodyResult(Returns(Some(Filtered(NewPayload))), env.o, TRUE, mem,
                             save_cache(l.file, NewPayload, t, env.how))

\* FundFlowFetcher.stock_individual_fund_flow: the dates and load_cache and
\* get_market (outside the try block), then the try block.
FundFlowBody(mem, file, t, market, env) ==
    IF env.pre_raises THEN BodyResult(Raises("e1"), "not_called", FALSE, mem, file)
    ELSE LET l == load_cache(file, t, ExpiryHours, env.unlink_ok)
         IN  IF l.raises THEN BodyResult(Raises("e2"), "not_called", FALSE, mem, l.file)
             ELSE IF ~l.ret.isNone
             THEN BodyResult(Returns(Some(Filtered(l.ret.v))), "not_called", FALSE, mem, l.file)
             ELSE IF ~market
             THEN BodyResult(Returns(None), "not_called", FALSE, mem, l.file)
             ELSE IF env.o # "df"
             THEN BodyResult(Returns(None), env.o, FALSE, mem, l.file)
             ELSE BodyResult(Returns(Some(Filtered(NewPayload))), env.o, TRUE, mem,
                             save_cache(l.file, NewPayload, t, env.how))

\* get_index_data, get_board_hist_data, get_stock_info, get_intraday_data:
\* the whole body after the log line is the try block.
PlainBody(mem, file, env) ==
    IF env.o = "df" THEN BodyResult(Returns(Some("df")), env.o, FALSE, mem, file)
    ELSE BodyResult(Returns(None), env.o, FALSE, mem, file)

\* A variant of the bodies whose try block lets the provider's exception out.
FetcherBodyUnhandled(f, mem, file, t, market, env) ==
    IF env.o = "raise" /\ ~env.pre_raises /\ (f = "stock_data" => mem.isNone)
          /\ (f = "fund_flow" => (market /\ ~file.exists))
    THEN BodyResult(Raises("e1"), env.o, FALSE, mem, file)
    ELSE IF f = "stock_data" THEN StockDataBody(mem, file, env)
    ELSE IF f = "fund_flow" THEN FundFlowBody(mem, file, t, market, env)
    ELSE PlainBody(mem, file, env)

FetcherBody(f, mem, file, t, market, env) ==
    IF f = "stock_data" THEN StockDataBody(mem, file, env)
    ELSE IF f = "fund_flow" THEN FundFlowBody(mem, file, t, market, env)
    ELSE PlainBody(mem, file, env)

\* What the collaborators of one body call may do.
FetchEnv(pre_raises, unlink_ok, o, how) ==
    [pre_raises |-> pre_raises, unlink_ok |-> unlink_ok, o |-> o, how |-> how]
FetchEnvs(f) ==
    IF f = "stock_data"
    THEN {FetchEnv(pr, TRUE, o, "ok") : pr \in BOOLEAN, o \in ProviderOutcomes}
    ELSE IF f = "fund_flow"
    THEN {FetchEnv(pr, u, o, how) : pr \in BOOLEAN, u \in BOOLEAN,
                                    o \in FundFlowOutcomes, how \in SaveOutcomes}
    ELSE {FetchEnv(FALSE, TRUE, o, "ok") : o \in ProviderOutcomes}

FetchNote(b) == [raised |-> b.out.raises, provider |-> b.provider, saved |-> b.saved]

FetchCall(env) ==
    LET b == FetcherBody(f_fetcher, f_mem, f_file, f_now, f_market, env)
    IN  /\ SetRetryState(RetryIter(max_retries, retry_delay, RetryState, b.out))
        /\ f_mem' = b.mem
        /\ f_file' = b.file
        /\ f_calls' = Append(f_calls, FetchNote(b))
        /\ UNCHANGED <<f_fetcher, f_market, f_now>>

\* func(*args, **kwargs) returned: the wrapper returns its value.
FetchCallReturns ==
    /\ r_pc = "try"
    /\ attempt < max_retries
    /\ \E env \in FetchEnvs(f_fetcher) :
          /\ ~FetcherBody(f_fetcher, f_mem, f_file, f_now, f_market, env).out.raises
          /\ FetchCall(env)

\* func(*args, **kwargs) raised: the wrapper logs, sleeps and goes on, or
\* gives up after the last attempt.
FetchCallRaises ==
    /\ r_pc = "try"
    /\ attempt < max_retries
    /\ \E env \in FetchEnvs(f_fetcher) :
          /\ FetcherBody(f_fetcher, f_mem, f_file, f_now, f_market, env).out.raises
          /\ FetchCall(env)

FetchIdle ==
    /\ f_fetcher = ""
    /\ f_market = FALSE
    /\ f_now = 0
    /\ f_file = NoFile
    /\ f_mem = None
    /\ f_calls = << >>

(***************************************************************************)
(* StockCodeConverter.convert(code) and MarketType.get_market(symbol).     *)
(* A str is a sequence of characters.                                      *)
(***************************************************************************)
SH == <<"s", "h">>
SZ == <<"s", "z">>
ShanghaiFirst == {"6", "5", "9"}
ShenzhenFirst == {"0", "1", "2", "3"}

\* s.startswith((p1, p2, ...)) for one-character prefixes
startswithAny(s, firsts) == \E c \in firsts : startswith(s, <<c>>)

\* code[2:]
DropPrefix(code) == SubSeq(code, 3, Len(code))

\* A variant of convert that keeps a prefix the argument already has.
convertKeepsPrefix(code) ==
    LET c1 == strip(code)
    IN  IF startswith(c1, SH) \/ startswith(c1, SZ) THEN Returns(SH \o c1)
        ELSE IF ~(isdigit(c1) /\ Len(c1) = CodeLen) THEN Raises("ValueError")
        ELSE IF startswithAny(c1, ShanghaiFirst) THEN Returns(SH \o c1)
        ELSE IF startswithAny(c1, ShenzhenFirst) THEN Returns(SZ \o c1)
        ELSE Raises("ValueError")

\* strip; drop one sh or sz prefix; six digits or ValueError; the prefix of
\* the first digit or ValueError
convert(code) ==
    LET c1 == strip(code)
        c2 == IF startswith(c1, SH) \/ startswith(c1, SZ) THEN DropPrefix(c1) ELSE c1
    IN  IF ~(isdigit(c2) /\ Len(c2) = CodeLen) THEN Raises("ValueError")
        ELSE IF startswithAny(c2, ShanghaiFirst) THEN Returns(SH \o c2)
        ELSE IF startswithAny(c2, ShenzhenFirst) THEN Returns(SZ \o c2)
        ELSE Raises("ValueError")

\* if / elif / else on the first character alone
get_market(symbol) ==
    IF startswithAny(symbol, ShanghaiFirst) THEN Some(SH)
    ELSE IF startswithAny(symbol, ShenzhenFirst) THEN Some(SZ)
    ELSE None

\* The arguments drawn: blanks, prefixes, a first character and a tail.
ConvPads == {<< >>, <<" ">>}
ConvPrefixes == {<< >>, SH, SZ, SH \o SZ, <<"s">>}
ConvFirsts == DecimalDigits \cup {"fullwidth_1", "x"}
ConvTails == SeqsUpTo({"0", "x"}, MaxTail)
ConvCodes ==
    {l \o p \o b \o t : l \in ConvPads, p \in ConvPrefixes, t \in ConvPads,
                        b \in {<< >>} \cup {<<f>> \o r : f \in ConvFirsts, r \in ConvTails}}

NotCalled == [called |-> FALSE]
Called(out) == [called |-> TRUE, out |-> out]

\* convert(code), and convert on what it returned
ConvConvert ==
    /\ ~k_convert.called
    /\ LET first == convert(k_code)
       IN  /\ k_convert' = Called(first)
           /\ k_again' = IF first.raises THEN NotCalled ELSE Called(convert(first.value))
    /\ UNCHANGED <<k_code, k_market>>

\* MarketType.get_market(code)
ConvMarket ==
    /\ ~k_market.called
    /\ k_market' = Called(get_market(k_code))
    /\ UNCHANGED <<k_code, k_convert, k_again>>

ConvIdle ==
    /\ k_code = << >>
    /\ k_convert = NotCalled
    /\ k_again = NotCalled
    /\ k_market = NotCalled

OrchIdle ==
    /\ stock_code = ""
    /\ o_pc = "idle"
    /\ cur = 0
    /\ expert_reports = << >>
    /\ report_roles = << >>
    /\ run_count = [i \in Roles |-> 0]
    /\ raised_roles = {}
    /\ agg_calls = 0
    /\ agg_input = << >>
    /\ agg_roles = << >>
    /\ agg_raised = FALSE
    /\ chief_strategist_result = EmptyDict
    /\ final_result = NoBatch
    /\ saved = FALSE
    /\ returned = NoBatch

StreamIdle ==
    /\ response = [chunks |-> << >>, raises |-> FALSE]
    /\ pos = 0
    /\ reasoning_content = << >>
    /\ content = << >>
    /\ finished = FALSE
    /\ pr_pc = "idle"
    /\ pr_result = None

RetryIdle ==
    /\ max_retries = 0
    /\ retry_delay = 0
    /\ attempt = 0
    /\ r_pc = "idle"
    /\ r_result = None
    /\ r_log = << >>

InitStream ==
    /\ response \in Responses
    /\ pos = 0
    /\ reasoning_content = << >>
    /\ content = << >>
    /\ finished = FALSE
    /\ pr_pc = "loop"
    /\ pr_result = None
    /\ RetryIdle
    /\ AskIdle
    /\ CacheIdle
    /\ MainIdle
    /\ BenchIdle
    /\ ConcIdle
    /\ rs = RoleIdle
    /\ OrchIdle
    /\ FetchIdle
    /\ ConvIdle

NextStream ==
    \/ PRConsume /\ UNCHANGED <<retryVars, askVars, cacheVars, roleVars, orchVars, mainVars, benchVars, concVars, fetchVars, convVars>>
    \/ PRExhaust /\ UNCHANGED <<retryVars, askVars, cacheVars, roleVars, orchVars, mainVars, benchVars, concVars, fetchVars, convVars>>
    \/ PRRaise /\ UNCHANGED <<retryVars, askVars, cacheVars, roleVars, orchVars, mainVars, benchVars, concVars, fetchVars, convVars>>
    \/ PRReturn /\ UNCHANGED <<retryVars, askVars, cacheVars, roleVars, orchVars, mainVars, benchVars, concVars, fetchVars, convVars>>

SpecStream == InitStream /\ [][NextStream]_vars

InitRetry ==
    \/ /\ max_retries \in 0..MaxRetriesBound
       /\ retry_delay \in 1..MaxDelay
       /\ attempt = 0
       /\ r_pc = "try"
       /\ r_result = None
       /\ r_log = << >>
       /\ AskIdle
       /\ StreamIdle
       /\ CacheIdle
       /\ MainIdle
       /\ BenchIdle
       /\ ConcIdle
       /\ rs = RoleIdle
       /\ OrchIdle
       /\ FetchIdle
       /\ ConvIdle
    \/ /\ ask_max \in 1..MaxRetriesBound
       /\ ask_attempt = 0
       /\ ask_pc = "start"
       /\ ask_result = None
       /\ ask_log = << >>
       /\ RetryIdle
       /\ StreamIdle
       /\ CacheIdle
       /\ MainIdle
       /\ BenchIdle
       /\ ConcIdle
       /\ rs = RoleIdle
       /\ OrchIdle
       /\ FetchIdle
       /\ ConvIdle

NextRetry ==
    \/ RetryCallReturns /\ UNCHANGED <<streamVars, askVars, cacheVars, roleVars, orchVars, mainVars, benchVars, concVars, fetchVars, convVars>>
    \/ RetryCallRaises /\ UNCHANGED <<streamVars, askVars, cacheVars, roleVars, orchVars, mainVars, benchVars, concVars, fetchVars, convVars>>
    \/ RetryNoAttempt /\ UNCHANGED <<streamVars, askVars, cacheVars, roleVars, orchVars, mainVars, benchVars, concVars, fetchVars, convVars>>
    \/ AskBegin /\ UNCHANGED <<streamVars, retryVars, cacheVars, roleVars, orchVars, mainVars, benchVars, concVars, fetchVars, convVars>>
    \/ AskAttempt /\ UNCHANGED <<streamVars, retryVars, cacheVars, roleVars, orchVars, mainVars, benchVars, concVars, fetchVars, convVars>>
    \/ AskExhausted /\ UNCHANGED <<streamVars, retryVars, cacheVars, roleVars, orchVars, mainVars, benchVars, concVars, fetchVars, convVars>>

SpecRetry == InitRetry /\ [][NextRetry]_vars

InitCache ==
    /\ CacheIdle
    /\ MainIdle
    /\ BenchIdle
    /\ ConcIdle
    /\ StreamIdle
    /\ RetryIdle
    /\ AskIdle
    /\ rs = RoleIdle
    /\ OrchIdle
    /\ FetchIdle
    /\ ConvIdle

NextCache ==
    \/ LoadCache /\ UNCHANGED <<streamVars, retryVars, askVars, roleVars, orchVars, mainVars, benchVars, concVars, fetchVars, convVars>>
    \/ SaveCache /\ UNCHANGED <<streamVars, retryVars, askVars, roleVars, orchVars, mainVars, benchVars, concVars, fetchVars, convVars>>
    \/ Tick /\ UNCHANGED <<streamVars, retryVars, askVars, roleVars, orchVars, mainVars, benchVars, concVars, fetchVars, convVars>>

SpecCache == InitCache /\ [][NextCache]_vars

InitRole ==
    /\ \E i \in Roles, cache \in CacheEntries : rs = RoleStart(i, cache)
    /\ StreamIdle
    /\ RetryIdle
    /\ AskIdle
    /\ CacheIdle
    /\ MainIdle
    /\ BenchIdle
    /\ ConcIdle
    /\ OrchIdle
    /\ FetchIdle
    /\ ConvIdle

NextRole ==
    \/ RolePrimary /\ UNCHANGED <<streamVars, retryVars, askVars, cacheVars, orchVars, mainVars, benchVars, concVars, fetchVars, convVars>>
    \/ RoleAux /\ UNCHANGED <<streamVars, retryVars, askVars, cacheVars, orchVars, mainVars, benchVars, concVars, fetchVars, convVars>>
    \/ RoleEngine /\ UNCHANGED <<streamVars, retryVars, askVars, cacheVars, orchVars, mainVars, benchVars, concVars, fetchVars, convVars>>
    \/ RoleAnalyzeExcept /\ UNCHANGED <<streamVars, retryVars, askVars, cacheVars, orchVars, mainVars, benchVars, concVars, fetchVars, convVars>>
    \/ RoleRunExcept /\ UNCHANGED <<streamVars, retryVars, askVars, cacheVars, orchVars, mainVars, benchVars, concVars, fetchVars, convVars>>

SpecRole == InitRole /\ [][NextRole]_vars

Init ==
    /\ stock_code \in Symbols
    /\ o_pc = "roles"
    /\ cur = 1
    /\ expert_reports = << >>
    /\ report_roles = << >>
    /\ run_count = [i \in Roles |-> 0]
    /\ raised_roles = {}
    /\ agg_calls = 0
    /\ agg_input = << >>
    /\ agg_roles = << >>
    /\ agg_raised = FALSE
    /\ chief_strategist_result = EmptyDict
    /\ final_result = NoBatch
    /\ saved = FALSE
    /\ returned = NoBatch
    /\ rs = RoleIdle
    /\ StreamIdle
    /\ RetryIdle
    /\ AskIdle
    /\ CacheIdle
    /\ MainIdle
    /\ BenchIdle
    /\ ConcIdle
    /\ FetchIdle
    /\ ConvIdle

Next ==
    \/ OrchCallRole /\ UNCHANGED <<streamVars, retryVars, askVars, cacheVars, mainVars, benchVars, concVars, fetchVars, convVars>>
    \/ OrchRolePrimary /\ UNCHANGED <<streamVars, retryVars, askVars, cacheVars, mainVars, benchVars, concVars, fetchVars, convVars>>
    \/ OrchRoleAux /\ UNCHANGED <<streamVars, retryVars, askVars, cacheVars, mainVars, benchVars, concVars, fetchVars, convVars>>
    \/ OrchRoleEngine /\ UNCHANGED <<streamVars, retryVars, askVars, cacheVars, mainVars, benchVars, concVars, fetchVars, convVars>>
    \/ OrchRoleAnalyzeExcept /\ UNCHANGED <<streamVars, retryVars, askVars, cacheVars, mainVars, benchVars, concVars, fetchVars, convVars>>
    \/ OrchRoleRunExcept /\ UNCHANGED <<streamVars, retryVars, askVars, cacheVars, mainVars, benchVars, concVars, fetchVars, convVars>>
    \/ OrchCollect /\ UNCHANGED <<streamVars, retryVars, askVars, cacheVars, mainVars, benchVars, concVars, fetchVars, convVars>>
    \/ OrchAggregate /\ UNCHANGED <<streamVars, retryVars, askVars, cacheVars, mainVars, benchVars, concVars, fetchVars, convVars>>
    \/ OrchAssemble /\ UNCHANGED <<streamVars, retryVars, askVars, cacheVars, mainVars, benchVars, concVars, fetchVars, convVars>>
    \/ OrchSaveAndReturn /\ UNCHANGED <<streamVars, retryVars, askVars, cacheVars, mainVars, benchVars, concVars, fetchVars, convVars>>

Spec == Init /\ [][Next]_vars

InitMain ==
    /\ m_input \in MainInputs
    /\ m_pc = "input"
    /\ stock_symbol = << >>
    /\ StreamIdle
    /\ RetryIdle
    /\ AskIdle
    /\ CacheIdle
    /\ BenchIdle
    /\ ConcIdle
    /\ rs = RoleIdle
    /\ OrchIdle
    /\ FetchIdle
    /\ ConvIdle

NextMain ==
    \/ MainReject /\ UNCHANGED <<streamVars, retryVars, askVars, cacheVars, roleVars, benchVars, concVars, fetchVars, convVars>>
    \/ MainCall /\ UNCHANGED <<streamVars, retryVars, askVars, cacheVars, roleVars, benchVars, concVars, fetchVars, convVars>>

SpecMain == InitMain /\ [][NextMain]_vars

InitBench ==
    /\ b_code \in StockCodes
    /\ b_pc = "call"
    /\ b_role = 0
    /\ b_index = << >>
    /\ b_result = None
    /\ b_env = NoBenchEnv
    /\ StreamIdle
    /\ RetryIdle
    /\ AskIdle
    /\ CacheIdle
    /\ MainIdle
    /\ ConcIdle
    /\ rs = RoleIdle
    /\ OrchIdle
    /\ FetchIdle
    /\ ConvIdle

NextBench ==
    \/ BenchResolve /\ UNCHANGED <<streamVars, retryVars, askVars, cacheVars, roleVars, orchVars, mainVars, concVars, fetchVars, convVars>>
    \/ BenchFetch /\ UNCHANGED <<streamVars, retryVars, askVars, cacheVars, roleVars, orchVars, mainVars, concVars, fetchVars, convVars>>

SpecBench == InitBench /\ [][NextBench]_vars

InitConc ==
    /\ c_file \in {NoCacheFile, StoredCacheFile(FALSE), StoredCacheFile(TRUE)}
    /\ \E k1, k2 \in {"load", "save"} : c_procs = <<ProcStart(k1), ProcStart(k2)>>
    /\ StreamIdle
    /\ RetryIdle
    /\ AskIdle
    /\ CacheIdle
    /\ MainIdle
    /\ BenchIdle
    /\ rs = RoleIdle
    /\ OrchIdle
    /\ FetchIdle
    /\ ConvIdle

NextConc ==
    \/ (\E p \in Procs : LoadExists(p)) /\ UNCHANGED <<streamVars, retryVars, askVars, cacheVars, roleVars, orchVars, mainVars, benchVars, fetchVars, convVars>>
    \/ (\E p \in Procs : LoadStat(p)) /\ UNCHANGED <<streamVars, retryVars, askVars, cacheVars, roleVars, orchVars, mainVars, benchVars, fetchVars, convVars>>
    \/ (\E p \in Procs : LoadUnlink(p)) /\ UNCHANGED <<streamVars, retryVars, askVars, cacheVars, roleVars, orchVars, mainVars, benchVars, fetchVars, convVars>>
    \/ (\E p \in Procs : LoadOpen(p)) /\ UNCHANGED <<streamVars, retryVars, askVars, cacheVars, roleVars, orchVars, mainVars, benchVars, fetchVars, convVars>>
    \/ (\E p \in Procs : LoadRead(p)) /\ UNCHANGED <<streamVars, retryVars, askVars, cacheVars, roleVars, orchVars, mainVars, benchVars, fetchVars, convVars>>
    \/ (\E p \in Procs : SaveOpen(p)) /\ UNCHANGED <<streamVars, retryVars, askVars, cacheVars, roleVars, orchVars, mainVars, benchVars, fetchVars, convVars>>
    \/ (\E p \in Procs : SaveWrite(p)) /\ UNCHANGED <<streamVars, retryVars, askVars, cacheVars, roleVars, orchVars, mainVars, benchVars, fetchVars, convVars>>

SpecConc == InitConc /\ [][NextConc]_vars

InitFetch ==
    /\ f_fetcher \in Fetchers
    /\ f_market \in (IF f_fetcher = "fund_flow" THEN BOOLEAN ELSE {TRUE})
    /\ f_now \in (IF f_fetcher = "fund_flow" THEN {TickSeconds, MaxTicks * TickSeconds}
                  ELSE {TickSeconds})
    /\ f_file \in (IF f_fetcher = "fund_flow" THEN {NoFile, File("d1", 0), BrokenFile(0)}
                   ELSE {NoFile})
    /\ f_mem \in (IF f_fetcher = "stock_data" THEN CacheEntries ELSE {None})
    /\ f_calls = << >>
    /\ max_retries = FetchMaxRetries
    /\ retry_delay = FetchRetryDelay
    /\ attempt = 0
    /\ r_pc = "try"
    /\ r_result = None
    /\ r_log = << >>
    /\ StreamIdle
    /\ AskIdle
    /\ CacheIdle
    /\ MainIdle
    /\ BenchIdle
    /\ ConcIdle
    /\ ConvIdle
    /\ rs = RoleIdle
    /\ OrchIdle

NextFetch ==
    \/ FetchCallReturns /\ UNCHANGED <<streamVars, askVars, cacheVars, roleVars, orchVars, mainVars, benchVars, concVars, convVars>>
    \/ FetchCallRaises /\ UNCHANGED <<streamVars, askVars, cacheVars, roleVars, orchVars, mainVars, benchVars, concVars, convVars>>

SpecFetch == InitFetch /\ [][NextFetch]_vars

InitConv ==
    /\ k_code \in ConvCodes
    /\ k_convert = NotCalled
    /\ k_again = NotCalled
    /\ k_market = NotCalled
    /\ StreamIdle
    /\ RetryIdle
    /\ AskIdle
    /\ CacheIdle
    /\ MainIdle
    /\ BenchIdle
    /\ ConcIdle
    /\ FetchIdle
    /\ rs = RoleIdle
    /\ OrchIdle

NextConv ==
    \/ ConvConvert /\ UNCHANGED <<streamVars, retryVars, askVars, cacheVars, roleVars, orchVars, mainVars, benchVars, concVars, fetchVars>>
    \/ ConvMarket /\ UNCHANGED <<streamVars, retryVars, askVars, cacheVars, roleVars, orchVars, mainVars, benchVars, concVars, fetchVars>>

SpecConv == InitConv /\ [][NextConv]_vars

\* The orchestrator run in which every call that is pending eventually
\* returns or raises.
\* The engine call of the role is pending; the other steps.  That the
\* engine call does not stay pending for ever is written on its guard; the
\* other steps are weakly fair.
EnginePending == o_pc = "in_role" /\ rs.pc = "engine"
OtherSteps ==
    /\ \/ OrchCallRole \/ OrchRolePrimary \/ OrchRoleAux \/ OrchRoleAnalyzeExcept
       \/ OrchRoleRunExcept \/ OrchCollect \/ OrchAggregate \/ OrchAssemble
       \/ OrchSaveAndReturn
    /\ UNCHANGED <<streamVars, retryVars, askVars, cacheVars, mainVars, benchVars,
                   concVars, fetchVars, convVars>>
InitLive == Init /\ stock_code = "300750"
SpecLive ==
    /\ InitLive /\ [][Next]_vars
    /\ WF_vars(OtherSteps)
    /\ []<>(~EnginePending)

(***************************************************************************)
(* Properties.                                                             *)
(***************************************************************************)

\* The keys of final_result.
BatchKeys == {"stock_code", "analysis_time", "expert_reports", "strategy"}

\* rec is the default dict of role i: its keys, the neutral signal, the
\* default confidence, a reason and a debug trace.
IsFallbackRecord(rec, i) ==
    /\ rec.kind = "dict"
    /\ rec.keys = RoleKeys(i)
    /\ rec.role = RoleNames[i]
    /\ rec.signal = "neutral"
    /\ rec.confidence = DefaultConfidence
    /\ rec.reason # <<"", "">>
    /\ rec.debug # << >>

\* C1: the list passed to run_chief_strategist_agent holds exactly NumRoles
\* records, one per role in the declared order, whichever roles failed, a
\* role whose run_<role>_agent call raised included.
C1_FanInComplete ==
    agg_calls >= 1 =>
        /\ Len(agg_input) = NumRoles
        /\ agg_roles = [i \in 1..NumRoles |-> i]

\* C2: every record a run_<role>_agent call returns has the key set of the
\* role (the reply of the engine and the default dicts of every except
\* branch alike), and the returned batch has its four keys.
C2_SchemaStable ==
    /\ (o_pc = "in_role" /\ rs.pc = "returned") => rs.result.keys = RoleKeys(rs.role)
    /\ o_pc = "done" => DOMAIN returned = BatchKeys

\* Every one of the EngineMaxRetries requests of the role ended without a
\* finish signal or with an exception.
EngineExhausted(r) ==
    /\ Count(r.engine_log, IsCall) = EngineMaxRetries
    /\ \A i \in 1..Len(r.engine_log) :
          IsCall(r.engine_log[i]) =>
              r.engine_log[i].out \in {"incomplete", "api_error", "error"}

\* C3: a role whose engine requests are all incomplete or raise, so that the
\* attempts are used up, returns its default dict (neutral signal, default
\* confidence, reason, debug trace).
C3_ExhaustedEngineFallsBack ==
    (rs.pc = "returned" /\ EngineExhausted(rs)) => IsFallbackRecord(rs.result, rs.role)

AfterRoles == {"aggregate", "assemble", "save", "done"}

\* C4: when the run_<role>_agent call of role i raises, every role after i
\* is still run exactly once, run_chief_strategist_agent is still called
\* exactly once and the orchestrator returns final_result.
C4_RaiseDoesNotAbort ==
    \A i \in raised_roles :
        /\ \A j \in Roles : run_count[j] <= 1
        /\ \A j \in Roles : (j > i /\ j < cur) => run_count[j] = 1
        /\ o_pc \in AfterRoles => \A j \in Roles : j > i => run_count[j] = 1
        /\ agg_calls = (IF o_pc \in AfterRoles \ {"aggregate"} THEN 1 ELSE 0)
        /\ o_pc = "done" =>
              /\ DOMAIN returned = BatchKeys
              /\ returned.stock_code = stock_code
              /\ returned.expert_reports = expert_reports

C4_Witness ==
    /\ o_pc = "done"
    /\ raised_roles = {2}
    /\ \A j \in Roles : run_count[j] = 1
    /\ agg_calls = 1
    /\ Len(returned.expert_reports) = NumRoles - 1

\* C5: when get_stock_data gives None or an empty frame, the role fetches no
\* auxiliary dataset and makes no engine request, and the except branch of
\* analyze returns the default dict of the role.
C5_NoDataImmediateFallback ==
    (rs.pc \notin {"idle", "primary"} /\ Missing(rs.stock_data)) =>
        /\ rs.aux_fetches = 0
        /\ rs.prompt = ""
        /\ rs.engine_log = << >>
        /\ rs.pc \in {"analyze_except", "run_except", "returned", "raised"}
        /\ (rs.pc = "returned" /\ rs.handler_faults = 0) =>
              /\ rs.result = Fallback(rs.role, "analyze", NoDataError)
              /\ IsFallbackRecord(rs.result, rs.role)

C5_Witness ==
    /\ rs.pc = "returned"
    /\ rs.stock_data = Some("empty")
    /\ rs.provider_calls = 1
    /\ rs.via = "analyze_fallback"
    /\ rs.role = 3

\* C8: when the provider call behind get_stock_data raises on the first
\* attempt and succeeds on the second, the retry wrapper sleeps once, the
\* provider is called twice, the dataset is returned and the role goes on to
\* the prompt and the engine call.
C8_RetryThenProceed ==
    (/\ rs.pc \notin {"idle", "primary"}
     /\ rs.cache_before.isNone
     /\ rs.script[1] = "raise"
     /\ rs.script[2] = "df") =>
        /\ rs.provider_calls = 2
        /\ Count(rs.fetch_log, IsSleep) = 1
        /\ rs.stock_data = Some("df")
        /\ rs.err # NoDataError
        /\ rs.pc \notin {"analyze_except", "run_except", "raised"} \/ rs.aux_fetches > 0

\* C6: retry(max_retries = n) with n >= 1 calls func at most n times; the
\* calls stop at the first call that returns and the wrapper returns that
\* value; when every call raises func is called exactly n times and the
\* wrapper returns None; the wrapper itself never raises.
C6_RetryBound ==
    (r_pc # "idle" /\ max_retries >= 1) =>
        /\ r_pc \in {"try", "returned"}
        /\ Count(r_log, IsCall) <= max_retries
        /\ \A i \in 1..Len(r_log) :
              CallReturned(r_log[i]) =>
                  /\ i = Len(r_log)
                  /\ r_pc = "returned"
                  /\ r_result = r_log[i].value
        /\ (r_pc = "returned" /\ Count(r_log, CallReturned) = 0) =>
                  /\ Count(r_log, IsCall) = max_retries
                  /\ Count(r_log, CallRaised) = max_retries
                  /\ r_result = None

C6_Witness ==
    /\ r_pc = "returned"
    /\ max_retries = 3
    /\ Count(r_log, CallRaised) = 3
    /\ r_result = None

C9_CacheTTL ==
    (last_op.op = "load" /\ last_op.pre.exists /\ last_op.pre.readable) =>
        LET D == last_op.at - last_op.pre.st_mtime
        IN  IF D < ExpiryHours * SecondsPerHour
            THEN /\ last_op.ret = Some(last_op.pre.payload)
                 /\ files[last_op.path] = last_op.pre
            ELSE /\ last_op.ret = None
                 /\ ~files[last_op.path].exists

\* The finish signal: finish_reason 'stop' on the first choice of a chunk.
FinishSignal(chunk) == chunk.choices /\ chunk.finish_reason = "stop"
FirstFinish(cs) ==
    IF \E i \in 1..Len(cs) : FinishSignal(cs[i])
    THEN CHOOSE i \in 1..Len(cs) :
            FinishSignal(cs[i]) /\ \A j \in 1..(i - 1) : ~FinishSignal(cs[j])
    ELSE 0
RECURSIVE ContentOf(_, _)
ContentOf(cs, k) ==
    IF k = 0 THEN << >>
    ELSE ContentOf(cs, k - 1)
         \o (IF cs[k].content.isNone THEN << >> ELSE cs[k].content.v)

\* C10: process_response returns the concatenation, in order, of the content
\* fragments that precede the finish signal and takes no chunk after it;
\* reasoning fragments are not in the result; a stream with no finish signal
\* gives None.
C10_StreamCompletion ==
    pr_pc = "returned" =>
        LET f == FirstFinish(response.chunks)
        IN  IF f = 0 THEN pr_result = None
            ELSE /\ pr_result = Some(ContentOf(response.chunks, f - 1))
                 /\ pos = f
                 /\ \A i \in 1..Len(pr_result.v) : pr_result.v[i] # "r"

\* A request whose stream reached finish_reason 'stop' (a completed reply),
\* and a request that ended incomplete or raised.
CompletedReply(e) == IsCall(e) /\ e.out \in {"content", "empty"}
FailedRequest(e) == IsCall(e) /\ e.out \in {"incomplete", "api_error", "error"}

\* What process_response gives for each stream taken on its own.
SingleStreamReplies == {process_response(r) : r \in EngineResponses}

\* C11: in askDeepSeek every incomplete stream or raised request is followed
\* by a new request on a new stream (nothing of the earlier stream is in the
\* reply), at most max_retries (5) requests are made per role call, and the
\* loop stops at the first completed reply, which is the value returned.
C11_EngineRetry ==
    LET log == rs.engine_log
    IN  /\ Count(log, IsCall) <= EngineMaxRetries
        /\ \A i \in 1..Len(log) :
              /\ CompletedReply(log[i]) =>
                    /\ i = Len(log)
                    /\ rs.via = "reply"
                    /\ Some(rs.result.text) \in SingleStreamReplies
              /\ (FailedRequest(log[i]) /\ log[i].attempt < EngineMaxRetries - 1) =>
                    \E j \in (i + 1)..Len(log) :
                        IsCall(log[j]) /\ log[j].attempt = log[i].attempt + 1

\* C12: when run_chief_strategist_agent raises, the orchestrator sets
\* chief_strategist_result to {} and the returned batch holds every record
\* collected before the call, unchanged.
C12_AggregatorFailureKeepsRecords ==
    (o_pc \in {"assemble", "save", "done"} /\ agg_raised) =>
        /\ chief_strategist_result = EmptyDict
        /\ expert_reports = agg_input
        /\ o_pc \in {"save", "done"} =>
              /\ final_result.strategy = EmptyDict
              /\ final_result.expert_reports = agg_input
        /\ o_pc = "done" =>
              /\ returned.strategy = EmptyDict
              /\ returned.expert_reports = agg_input

C12_Witness ==
    /\ o_pc = "done"
    /\ agg_raised
    /\ returned.strategy = EmptyDict
    /\ Len(returned.expert_reports) = NumRoles
    /\ Len(agg_input) = NumRoles

RoleFinished == rs.pc \in {"returned", "raised"}

\* C13: run_chief_strategist_agent is called only after all five role calls
\* have ended (returned or raised) and exactly once per run; the roles are
\* called in order, each once, and none after the aggregator call;
\* final_result is built only after the aggregator call has ended.
C13_JoinBeforeAggregate ==
    o_pc # "idle" =>
        /\ agg_calls <= 1
        /\ \A j \in Roles : run_count[j] <= 1
        /\ o_pc \in {"roles", "in_role"} =>
              /\ agg_calls = 0
              /\ cur \in Roles
              /\ \A j \in Roles :
                    run_count[j] = (IF j < cur \/ (j = cur /\ o_pc = "in_role")
                                    THEN 1 ELSE 0)
        /\ o_pc \in AfterRoles =>
              /\ \A j \in Roles : run_count[j] = 1
              /\ RoleFinished
              /\ Len(report_roles) + Cardinality(raised_roles) = NumRoles
        /\ agg_calls = (IF o_pc \in {"assemble", "save", "done"} THEN 1 ELSE 0)
        /\ final_result # NoBatch => (agg_calls = 1 /\ o_pc \in {"save", "done"})

C13_Witness ==
    /\ o_pc = "assemble"
    /\ agg_calls = 1
    /\ \A j \in Roles : run_count[j] = 1
    /\ raised_roles = {3}
    /\ final_result = NoBatch

\* A step of the orchestrator's own statements, and a role call that is
\* inside analyze or a handler.
OrchStep ==
    OrchCallRole \/ OrchCollect \/ OrchAggregate \/ OrchAssemble \/ OrchSaveAndReturn
RolePhasePending ==
    /\ o_pc = "in_role"
    /\ rs.pc \in {"primary", "aux", "engine", "analyze_except", "run_except"}

\* C14: run_wyckoff_multi_agent_analysis never raises: whatever fails (the
\* data fetch, the engine, a role call, the aggregator, the file), the run
\* goes on to its return statement and returns a batch.
C14_NeverRaises ==
    o_pc # "idle" =>
        /\ o_pc \in {"roles", "in_role", "aggregate", "assemble", "save", "done"}
        /\ o_pc # "done" => (RolePhasePending \/ ENABLED OrchStep)
        /\ o_pc = "done" =>
              /\ DOMAIN returned = BatchKeys
              /\ returned.stock_code = stock_code

C14_Witness ==
    /\ o_pc = "done"
    /\ raised_roles # {}
    /\ agg_raised
    /\ ~saved
    /\ \E k \in 1..Len(expert_reports) :
          expert_reports[k] = Fallback(report_roles[k], "analyze", NoDataError)
    /\ \E k \in 1..Len(expert_reports) : expert_reports[k].text = ExhaustedMsg
    /\ DOMAIN returned = BatchKeys

\* The record of role i in a run in which every role succeeds.
SuccessRecord(i) == TextRecord(i, process_response(ReplyStream).v)

\* Number of roles that ended before the current one with a record other
\* than their success record, or with an exception.
FailuresBefore ==
    Cardinality(raised_roles)
    + Cardinality({k \in 1..Len(expert_reports) :
                      expert_reports[k] # SuccessRecord(report_roles[k])})

\* The collaborators behave for role call r as in the all-succeeding run:
\* the provider gives the dataset, no auxiliary frame is malformed, to_json
\* works, the engine replies, no handler fails.
OwnCollaboratorsGood(r) ==
    /\ r.script = [k \in 1..FetchMaxRetries |-> "df"]
    /\ r.err \notin {RowKeyError, ToJsonError}
    /\ r.handler_faults = 0
    /\ \A i \in 1..Len(r.engine_log) : r.engine_log[i].out = "content"

\* C15: with the collaborators behaving the same, forcing exactly one role
\* to fail leaves the record of every other role as it is in the
\* all-succeeding run.
C15_RoleIsolation ==
    (/\ o_pc = "in_role"
     /\ RoleFinished
     /\ FailuresBefore <= 1
     /\ OwnCollaboratorsGood(rs)) =>
        /\ rs.pc = "returned"
        /\ rs.result = SuccessRecord(rs.role)

\* C16: the records list of the returned batch has exactly NumRoles
\* entries, entry k being the record of the k-th role, and it is the list
\* that was passed to run_chief_strategist_agent.
C16_BatchRecordsComplete ==
    o_pc = "done" =>
        /\ Len(returned.expert_reports) = NumRoles
        /\ report_roles = [k \in 1..NumRoles |-> k]
        /\ \A k \in 1..Len(report_roles) : returned.expert_reports[k] = expert_reports[k]
        /\ returned.expert_reports = agg_input

\* C20: a failure to write the result file is caught, and the value returned
\* is the batch that is returned when the file is written: same stock code,
\* records and strategy.
C20_SaveFailureKeepsBatch ==
    o_pc = "done" =>
        /\ returned = final_result
        /\ returned = [stock_code |-> stock_code, analysis_time |-> "now",
                       expert_reports |-> expert_reports,
                       strategy |-> chief_strategist_result]

C20_Witness ==
    /\ o_pc = "done"
    /\ ~saved
    /\ DOMAIN returned = BatchKeys
    /\ Len(returned.expert_reports) = NumRoles
    /\ ~returned.strategy.empty

\* An engine request of the role was answered by a completed reply with content.
EngineReplied(r) ==
    \E k \in 1..Len(r.engine_log) :
        IsCall(r.engine_log[k]) /\ r.engine_log[k].out = "content"

\* C17: in every role, with stock_data present, whatever subset of the
\* auxiliary datasets (fund flow, stock info, benchmark, industry, intraday) is
\* None or empty, analyze still builds a prompt and calls askDeepSeek; the role
\* leaves the try block through a handler only after that call, and returns
\* the engine's reply when the engine gave one.
C17_MissingAuxDoesNotAbort ==
    (/\ rs.pc \notin {"idle", "primary", "aux"}
     /\ ~Missing(rs.stock_data)
     /\ ~rs.aux_malformed) =>
        /\ rs.aux_absent \subseteq AuxUsed(rs.role)
        /\ rs.prompt # ""
        /\ rs.aux_fetches >= 3
        /\ rs.pc = "engine" \/ rs.engine_calls = 1
        /\ (rs.pc = "engine") => (rs.err = NoError /\ rs.engine_calls = 0)
        /\ (rs.pc = "returned" /\ EngineReplied(rs)) =>
              (rs.via = "reply" /\ ~IsFallbackRecord(rs.result, rs.role))

C17_Witness ==
    /\ rs.pc = "returned"
    /\ rs.role = 2
    /\ rs.aux_absent = AuxNames
    /\ rs.engine_calls = 1
    /\ rs.via = "reply"
    /\ EngineReplied(rs)

TTLSeconds == ExpiryHours * SecondsPerHour

\* The last save_cache for the path of the last call was completed and is
\* younger than the TTL.
FreshSave(op) ==
    /\ last_save[op.path].op = "save"
    /\ last_save[op.path].how = "ok"
    /\ op.at - last_save[op.path].at < TTLSeconds

\* C18: load_cache never raises; a file that does not unpickle is reported as
\* None; and after a completed save_cache for the same path a load_cache
\* within the TTL returns the payload that was saved.
C18_LoadNeverRaises ==
    last_op.op = "load" =>
        /\ ~last_op.raised
        /\ (last_op.pre.exists /\ ~last_op.pre.readable) => last_op.ret = None
        /\ FreshSave(last_op) => last_op.ret = last_save[last_op.path].ret

\* C19 (a step of the cache): save_cache leaves the files at the other paths
\* as they are and, when it completes, leaves exactly the new payload at its
\* path; a load_cache within the TTL of the last completed save_cache for
\* its path returns the payload of that save, whatever was stored before.
C19_Step ==
    /\ last_op'.op = "save" =>
          /\ \A q \in CachePaths \ {last_op'.path} : files'[q] = files[q]
          /\ last_op'.how = "ok" =>
                files'[last_op'.path] = File(last_op'.ret.v, last_op'.at)
    /\ (last_op'.op = "load" /\ FreshSave(last_op')) =>
          /\ last_op'.ret = last_save[last_op'.path].ret
          /\ \A q \in CachePaths \ {last_op'.path} : files'[q] = files[q]

C19_SaveOverwrites == [][C19_Step]_vars

\* d1 was saved, then d2 over it while the other path held its own entry; a
\* later load within the TTL returned d2 and the other entry is still there.
C19_Witness ==
    /\ last_op.op = "load"
    /\ last_op.ret = Some("d2")
    /\ last_save[last_op.path].how = "ok"
    /\ last_save[last_op.path].over = "d1"
    /\ last_op.at > last_save[last_op.path].at
    /\ \E q \in CachePaths \ {last_op.path} : files[q].exists /\ files[q].payload = "d1"

\* A chunk that carries nothing: no choices, no delta, or a delta without
\* fragments on a chunk that is not the finishing one.
CarriesNothing(chunk) ==
    \/ ~chunk.choices
    \/ ~chunk.delta
    \/ /\ chunk.finish_reason # "stop"
       /\ chunk.reasoning_content.isNone
       /\ chunk.content.isNone

EmptyChunks == {c \in Chunks : CarriesNothing(c)}

\* cs with chunk c put after its first i chunks, and cs without its i-th chunk.
InsertAt(cs, i, c) == SubSeq(cs, 1, i) \o <<c>> \o SubSeq(cs, i + 1, Len(cs))
RemoveAt(cs, i) == SubSeq(cs, 1, i - 1) \o SubSeq(cs, i + 1, Len(cs))

\* C21: a chunk with no choices, with no delta, or with neither fragment
\* leaves reasoning_content, content and finished as they are, and putting
\* such a chunk anywhere into the stream, or taking one out, does not change
\* what process_response returns.
C21_EmptyChunksAreNoOps ==
    /\ \A c \in EmptyChunks : LoopBody(PRState, c) = PRState
    /\ pr_pc = "returned" =>
          /\ \A i \in 0..Len(response.chunks), c \in EmptyChunks :
                process_response(Stream(InsertAt(response.chunks, i, c), response.raises))
                    = pr_result
          /\ \A i \in 1..Len(response.chunks) :
                CarriesNothing(response.chunks[i]) =>
                    process_response(Stream(RemoveAt(response.chunks, i), response.raises))
                        = pr_result

\* A reply with an empty chunk of the no-delta kind (here carrying 'stop')
\* between the content and the finishing chunk.
C21_Witness ==
    /\ pr_pc = "returned"
    /\ response.chunks = <<ContentChunk("a"), Chunk(TRUE, FALSE, "stop", None, None), StopChunk>>
    /\ pr_result = Some(<<"a">>)

\* The chunk the loop is about to take.
NextChunk == response.chunks[pos + 1]
Fragment(f) == IF f.isNone THEN << >> ELSE f.v

\* C30 (a step of the loop): finished is set only on a chunk whose
\* finish_reason is 'stop', and on that step nothing is added to the
\* buffers; a chunk with choices and a delta and any other finish_reason has
\* its fragments appended and the loop goes on.
C30_Step ==
    (pr_pc = "loop" /\ pos' = pos + 1) =>
        /\ (finished' /\ ~finished) =>
              /\ NextChunk.finish_reason = "stop"
              /\ content' = content
              /\ reasoning_content' = reasoning_content
        /\ (NextChunk.choices /\ NextChunk.delta /\ NextChunk.finish_reason = "stop") =>
              /\ finished'
              /\ pr_pc' = "after_loop"
              /\ content' = content
        /\ (NextChunk.choices /\ NextChunk.delta /\ NextChunk.finish_reason # "stop") =>
              /\ content' = content \o Fragment(NextChunk.content)
              /\ reasoning_content' = reasoning_content \o Fragment(NextChunk.reasoning_content)
              /\ finished' = finished
              /\ pr_pc' = "loop"

C30_StopOnlyFinishes == [][C30_Step]_vars

\* A chunk with finish_reason 'length' was accumulated and the fragment on
\* the finishing chunk was left out.
C30_Witness ==
    /\ pr_pc = "returned"
    /\ response.chunks = <<Chunk(TRUE, TRUE, "length", None, Some(<<"a">>)),
                           Chunk(TRUE, TRUE, "stop", None, Some(<<"b">>))>>
    /\ pr_result = Some(<<"a">>)

\* Every sleep of an event log has the same delay.
SameDelay(log) ==
    \A i, j \in 1..Len(log) :
        (IsSleep(log[i]) /\ IsSleep(log[j])) => log[i].delay = log[j].delay

\* C29: within one retry loop every sleep has the same delay, whatever the
\* attempt and the error: in the retry wrapper (always retry_delay) and in
\* the loop of askDeepSeek.
C29_FixedDelay ==
    /\ SameDelay(r_log)
    /\ \A i \in 1..Len(r_log) : IsSleep(r_log[i]) => r_log[i].delay = retry_delay
    /\ SameDelay(ask_log)

\* C24: running a role leaves the shared caches as they were: _cache of
\* StockDataFetcher holds for the stock code what it held before the call.
C24_RolesReadOnly ==
    rs.pc \notin {"idle", "primary"} => rs.cache = rs.cache_before

\* The role returned through one of its except branches.
ReturnedFallback(r) ==
    r.pc = "returned" /\ r.via \in {"ai_fallback", "analyze_fallback", "run_fallback"}

\* C27: the dict a role returns from any except branch (AI call, analyze,
\* run_<role>_agent) has the neutral signal, confidence 50, the default
\* fields of the role, a reason holding the error message and a debug trace
\* of two entries: the error message and the exception type.
C27_FallbackShape ==
    ReturnedFallback(rs) =>
        /\ rs.result.kind = "dict"
        /\ rs.result.keys = RoleKeys(rs.role)
        /\ rs.result.signal = "neutral"
        /\ rs.result.confidence = DefaultConfidence
        /\ rs.result.confidence \in 0..100
        /\ rs.result.fields = RoleFields(rs.role)
        /\ rs.result.reason[2] = rs.err.msg
        /\ rs.result.debug = <<rs.err.msg, rs.err.type>>

\* The last engine request of the role gave a completed reply with content.
GotReply(r) ==
    /\ r.pc = "returned"
    /\ r.engine_log # << >>
    /\ r.engine_log[Len(r.engine_log)].out = "content"
ReplyOf(r) == r.engine_log[Len(r.engine_log)].value.v

\* C28: when askDeepSeek returns a completed reply c, run_<role>_agent
\* returns the str c itself, and the entry appended to expert_reports, kept
\* in final_result and returned in the batch is that same str.
C28_ReplyVerbatim ==
    /\ GotReply(rs) =>
          /\ rs.via = "reply"
          /\ rs.result.kind = "str"
          /\ rs.result.text = ReplyOf(rs)
          /\ rs.result = TextRecord(rs.role, ReplyOf(rs))
    /\ (GotReply(rs) /\ o_pc \in {"roles", "aggregate"}) =>
          /\ report_roles[Len(report_roles)] = rs.role
          /\ expert_reports[Len(expert_reports)].text = ReplyOf(rs)
          /\ expert_reports[Len(expert_reports)].kind = "str"
    /\ o_pc \in {"save", "done"} => final_result.expert_reports = expert_reports
    /\ o_pc = "done" => returned.expert_reports = expert_reports

C28_Witness ==
    /\ o_pc = "done"
    /\ GotReply(rs)
    /\ rs.role = NumRoles
    /\ Len(returned.expert_reports) = NumRoles
    /\ \A k \in 1..NumRoles : returned.expert_reports[k].text = ReplyOf(rs)

\* The benchmark rule as a table on the leading characters of the code.
FirstChars(code, n) == [k \in 1..n |-> IF k <= Len(code) THEN code[k] ELSE ""]
ExpectedBenchmark(code) ==
    LET c1 == FirstChars(code, 1)[1]
        c3 == FirstChars(code, 3)
    IN  IF c1 = "6" \/ c3 = <<"0", "0", "0">> THEN <<"0", "0", "0", "3", "0", "0">>
        ELSE IF c1 = "3" \/ c3 = <<"0", "0", "2">> THEN <<"3", "9", "9", "0", "0", "6">>
        ELSE <<"0", "0", "0", "3", "0", "0">>

\* C26: the benchmark index is a total function of the leading characters of
\* the stock code, the same in the five roles: "6" or "000" gives 000300,
\* otherwise "3" or "002" gives 399006, anything else 000300; the call
\* completes for every code, and when resolving or fetching fails it returns
\* None, otherwise the data fetched for that index.
C26_BenchmarkSelection ==
    /\ \A i \in Roles : IndexCode(i, b_code) = ExpectedBenchmark(b_code)
    /\ (b_pc \in {"fetch", "done"} /\ ~b_env.fault) => b_index = ExpectedBenchmark(b_code)
    /\ (b_pc = "call") => ENABLED BenchResolve
    /\ (b_pc = "fetch") => ENABLED BenchFetch
    /\ (b_pc = "done") =>
          /\ b_result \in {None, Some(ProviderSymbol(ExpectedBenchmark(b_code)))}
          /\ (b_env.fault \/ b_env.script[1] # "df") => b_result = None
          /\ (~b_env.fault /\ b_env.script[1] = "df") => b_result # None

C26_Witness ==
    /\ b_pc = "done"
    /\ b_code = <<"0", "0", "2", "6">>
    /\ b_index = <<"3", "9", "9", "0", "0", "6">>
    /\ b_role = 5
    /\ b_result = Some(<<"s", "z", "3", "9", "9", "0", "0", "6">>)

\* Trimming and the six-numeric-characters test, stated on positions.
NonBlank(s) == {k \in 1..Len(s) : s[k] # " "}
Min(S) == CHOOSE x \in S : \A y \in S : x <= y
Max(S) == CHOOSE x \in S : \A y \in S : x >= y
Trimmed(s) == IF NonBlank(s) = {} THEN << >> ELSE SubSeq(s, Min(NonBlank(s)), Max(NonBlank(s)))
SixNumeric(t) == Len(t) = 6 /\ \A k \in 1..6 : t[k] \in {"1", "fullwidth_1"}

\* C25: main calls the orchestrator exactly when the trimmed input is six
\* numeric characters, passing the trimmed input; otherwise it returns with
\* the orchestrator, the roles, the fetchers and the engine untouched.
C25_MainValidates ==
    /\ m_pc \in {"called", "rejected"} =>
          /\ stock_symbol = Trimmed(m_input)
          /\ (m_pc = "called") <=> SixNumeric(Trimmed(m_input))
    /\ m_pc = "called" => (o_pc = "roles" /\ cur = 1 /\ stock_code = Trimmed(m_input))
    /\ m_pc = "rejected" =>
          /\ OrchIdle
          /\ rs = RoleIdle
          /\ AskIdle
          /\ RetryIdle
          /\ CacheIdle
          /\ FetchIdle
          /\ ConvIdle
    /\ m_pc = "input" => ENABLED (MainCall \/ MainReject)

C25_Witness ==
    /\ m_pc = "called"
    /\ m_input = <<" ", "1", "1", "1", "1", "1", "1", " ">>
    /\ stock_code = <<"1", "1", "1", "1", "1", "1">>

C25_WitnessRejected ==
    /\ m_pc = "rejected"
    /\ m_input = <<"1", "1", "1", " ", "1", "1", "1">>
    /\ OrchIdle
    /\ FetchIdle
    /\ ConvIdle

AllLoaders == \A p \in Procs : c_procs[p].kind = "load"
Quiescent == \A p \in Procs : c_procs[p].pc = "done"

\* C22: when every concurrent call on the key is a load_cache, no call
\* raises and each returns the stored payload or None, also when the entry
\* is expired and both readers go on to remove it.
C22_ConcurrentLoads ==
    (c_procs # << >> /\ AllLoaders) =>
        \A p \in Procs :
            /\ c_procs[p].raised = ""
            /\ c_procs[p].pc = "done" => c_procs[p].ret \in {None, Some(Payload(0))}

\* C23: with two calls on one key, of which at least one is a save_cache,
\* the entry left in the store is the whole payload of exactly one writer,
\* and a load_cache returns None or the whole payload of one writer.
C23_WritesAtomic ==
    (c_procs # << >> /\ ~AllLoaders) =>
        /\ (Quiescent /\ c_file.name # 0) =>
              \E w \in Writers : c_file.inodes[c_file.name] = Payload(w)
        /\ \A p \in Procs :
              (c_procs[p].kind = "load" /\ c_procs[p].pc = "done" /\ c_procs[p].raised = "") =>
                  c_procs[p].ret \in {None} \cup {Some(Payload(w)) : w \in Writers}

\* A chunk that carries the finish signal in a shape the loop skips.
SkippedFinish(chunk) == chunk.finish_reason = "stop" /\ (~chunk.choices \/ ~chunk.delta)
FinishDelivered(cs) == \E k \in 1..Len(cs) : cs[k].finish_reason = "stop"
OnlySkippedFinishes(cs) ==
    \A k \in 1..Len(cs) : cs[k].finish_reason = "stop" => SkippedFinish(cs[k])

\* C31: a chunk with the finish signal and no delta (or no choices) is
\* skipped before the finish test: it changes nothing, and a stream whose
\* finish chunks all have that shape returns None (incomplete) although a
\* finish signal was delivered.
C31_SkippedFinishIsIncomplete ==
    /\ (pr_pc = "returned" /\ FinishDelivered(response.chunks)
           /\ OnlySkippedFinishes(response.chunks)) =>
          /\ pr_result = None
          /\ ~finished
          /\ process_response(response) = None
    /\ \A chunk \in Chunks : SkippedFinish(chunk) => LoopBody(PRState, chunk) = PRState

C31_Witness ==
    /\ pr_pc = "returned"
    /\ ~response.raises
    /\ response.chunks = <<ContentChunk("a"), Chunk(TRUE, FALSE, "stop", None, None)>>
    /\ content = <<"a">>
    /\ pr_result = None

\* A request whose reply was not usable: incomplete, or completed and empty.
NoReply(e) == e.ev = "call" /\ e.out \in {"incomplete", "empty"}
EmptyReplyStream == Stream(<<StopChunk>>, FALSE)
WithoutLog(st) == [st EXCEPT !.log = << >>]

\* C32: in askDeepSeek a completed reply with empty content is treated as an
\* incomplete one: it is not returned and the loop goes to the next attempt;
\* after an incomplete or empty reply the next request follows at once, with
\* no sleep in between (a sleep follows only a raised exception).
C32_EmptyReplyRetriedAtOnce ==
    /\ \A k \in 1..Len(ask_log) :
          NoReply(ask_log[k]) =>
              /\ ask_attempt > ask_log[k].attempt
              /\ k < Len(ask_log) =>
                    /\ IsCall(ask_log[k + 1])
                    /\ ask_log[k + 1].attempt = ask_log[k].attempt + 1
              /\ k = Len(ask_log) =>
                    \/ ask_pc = "loop"
                    \/ ask_pc = "returned" /\ ask_result = Some(ExhaustedMsg)
                          /\ ask_attempt = ask_max
    /\ \A k \in 1..Len(ask_log) :
          IsSleep(ask_log[k]) => (k > 1 /\ RequestRaised(ask_log[k - 1]))
    /\ ask_pc = "returned" => ask_result # Some(<< >>)
    /\ (ask_pc = "loop" /\ ask_attempt < ask_max) =>
          WithoutLog(AskIter(ask_max, AskState, RequestStreams(EmptyReplyStream)))
            = WithoutLog(AskIter(ask_max, AskState, RequestStreams(IncompleteStream)))

C32_Witness ==
    /\ ask_pc = "returned"
    /\ Len(ask_log) = 3
    /\ ask_log[1].out = "empty"
    /\ ask_log[2].out = "incomplete"
    /\ ask_log[3].out = "content"
    /\ ask_result = Some(<<"a", "b">>)

\* get_stock_data of the role in rs has been called.
PrimaryCalled(r) == r.pc \notin {"idle", "primary"}
NoData(entry) == entry \in {Some("empty"), Some("None")}

\* C33: _cache keeps what the first provider call that did not raise
\* returned, an empty frame and None included, and never drops or replaces
\* it: a later get_stock_data for the stock returns the stored value with no
\* provider call, so after an empty or None first result every later role
\* takes the no-data path, makes no engine request and, when it returns,
\* returns its fallback.
C33_CacheKeepsFirstResult ==
    /\ (PrimaryCalled(rs) /\ rs.cache_before.isNone /\ rs.script[1] # "raise") =>
          /\ rs.provider_calls = 1
          /\ rs.cache = Some(rs.script[1])
          /\ rs.stock_data = Value(rs.script[1])
    /\ (PrimaryCalled(rs) /\ ~rs.cache_before.isNone) =>
          /\ rs.provider_calls = 0
          /\ rs.cache = rs.cache_before
          /\ rs.stock_data = Value(rs.cache_before.v)
    /\ (PrimaryCalled(rs) /\ NoData(rs.cache_before)) =>
          /\ rs.err # NoError
          /\ rs.aux_fetches = 0
          /\ rs.engine_log = << >>
          /\ rs.pc = "returned" => rs.via \in {"analyze_fallback", "run_fallback"}
    /\ (o_pc = "in_role" /\ rs.pc = "primary" /\ cur > 1 /\ NoData(rs.cache)) =>
          \A k \in 1..Len(expert_reports) : expert_reports[k].kind = "dict"

C33_Witness ==
    /\ o_pc = "done"
    /\ rs.role = NumRoles
    /\ rs.cache_before = Some("None")
    /\ rs.provider_calls = 0
    /\ rs.via = "analyze_fallback"
    /\ Len(returned.expert_reports) = NumRoles
    /\ \A k \in 1..NumRoles : returned.expert_reports[k].kind = "dict"

ProviderCalled(c) == c.provider # "not_called"
ProviderCalls == Cardinality({k \in 1..Len(f_calls) : ProviderCalled(f_calls[k])})

\* C34: in every retry-decorated fetcher an exception of the provider call
\* is caught inside the body, which returns None: the wrapper call then ends
\* with None, without a sleep or another call of the body, and the provider
\* is called at most once per wrapper call; the wrapper calls the body again
\* only after an exception raised before the body's try block.
C34_ProviderErrorsNotRetried ==
    /\ ProviderCalls <= 1
    /\ Count(r_log, IsCall) = Len(f_calls)
    /\ \A k \in 1..Len(f_calls) :
          /\ ProviderCalled(f_calls[k]) => ~f_calls[k].raised
          /\ f_calls[k].provider = "raise" =>
                /\ k = Len(f_calls)
                /\ r_pc = "returned"
                /\ r_result = None
                /\ CallReturned(r_log[Len(r_log)])
          /\ k < Len(f_calls) => (f_calls[k].raised /\ ~ProviderCalled(f_calls[k]))
    /\ \A i \in 1..Len(r_log) :
          IsSleep(r_log[i]) => (i > 1 /\ CallRaised(r_log[i - 1]))

C34_Witness ==
    /\ f_fetcher = "fund_flow"
    /\ r_pc = "returned"
    /\ r_result = None
    /\ Len(f_calls) = 2
    /\ f_calls[1].raised
    /\ f_calls[2].provider = "raise"
    /\ Count(r_log, IsSleep) = 1

C34_WitnessPlain ==
    /\ f_fetcher = "stock_info"
    /\ r_pc = "returned"
    /\ r_result = None
    /\ Len(f_calls) = 1
    /\ f_calls[1].provider = "raise"
    /\ Count(r_log, IsSleep) = 0

\* What the fund-flow cache holds for the symbol at time t: the payload a
\* load_cache would return, None without a fresh readable entry.
CacheView(file, t) == load_cache(file, t, ExpiryHours, TRUE).ret
Expired(file, t) == file.exists /\ t - file.st_mtime > ExpiryHours * SecondsPerHour
LastFetch == f_calls'[Len(f_calls')]

\* C35: one call of the fund-flow body.  With a fresh entry the provider is
\* not called and the value returned is the date filter of the cached
\* payload; the cache file is written only by a call whose provider returned
\* a frame with rows and a date column, and the value is returned with the
\* write already made; a provider failure, an empty or malformed frame and
\* an unrecognised market leave what the cache holds as it was (the only
\* other change of the file is the removal of an expired one).
C35_Step ==
    (f_fetcher = "fund_flow" /\ Len(f_calls') = Len(f_calls) + 1 /\ ~LastFetch.raised) =>
        /\ ~CacheView(f_file, f_now).isNone =>
              /\ LastFetch.provider = "not_called"
              /\ r_pc' = "returned"
              /\ r_result' = Some(Filtered(CacheView(f_file, f_now).v))
              /\ f_file' = f_file
        /\ LastFetch.saved <=> (LastFetch.provider = "df")
        /\ LastFetch.saved => (f_market /\ CacheView(f_file, f_now).isNone)
        /\ f_file' # f_file =>
              \/ LastFetch.saved
              \/ Expired(f_file, f_now) /\ f_file' = NoFile
        /\ CacheView(f_file', f_now') # CacheView(f_file, f_now) =>
              /\ LastFetch.saved
              /\ CacheView(f_file', f_now') = Some(NewPayload)
              /\ r_result' = Some(Filtered(NewPayload))
        /\ (LastFetch.provider \in {"raise", "empty", "None", "no_date"} \/ ~f_market) =>
              /\ CacheView(f_file', f_now') = CacheView(f_file, f_now)
              /\ ~LastFetch.saved
        /\ (LastFetch.provider \in {"raise", "empty", "None", "no_date"}) => r_result' = None

C35_WitnessHit ==
    /\ f_fetcher = "fund_flow"
    /\ r_pc = "returned"
    /\ Len(f_calls) = 1
    /\ f_calls[1].provider = "not_called"
    /\ f_file = File("d1", 0)
    /\ r_result = Some("d1_in_range")

\* C36: when every pending call eventually returns or raises, the
\* orchestrator reaches "done", whatever fails; on the way no wrapped fetch
\* is called more than FetchMaxRetries times in one role and no role makes
\* more than EngineMaxRetries engine requests.
C36_Bounded ==
    /\ Count(rs.fetch_log, IsCall) <= FetchMaxRetries
    /\ rs.provider_calls <= FetchMaxRetries
    /\ Count(rs.engine_log, IsCall) <= EngineMaxRetries
    /\ rs.engine_calls <= 1
    /\ \A i \in Roles : run_count[i] <= 1

C36_Terminates == []C36_Bounded /\ <>(o_pc = "done")

C36_Witness ==
    /\ o_pc = "done"
    /\ raised_roles # {}
    /\ agg_raised
    /\ ~saved
    /\ Count(rs.engine_log, IsCall) = EngineMaxRetries


\* s is six decimal digits; both functions have been applied to the argument.
SixDigits(s) == Len(s) = CodeLen /\ \A i \in 1..Len(s) : s[i] \in DecimalDigits
UnlistedFirst == {"4", "7", "8"}
BothApplied == k_convert.called /\ k_market.called

\* convert(convert(c)) = convert(c) whenever convert(c) returned.
ConvertIdempotent ==
    (k_convert.called /\ ~k_convert.out.raises) =>
        /\ k_again.called
        /\ ~k_again.out.raises
        /\ k_again.out.value = k_convert.out.value

\* On six digits the prefix convert adds is the market get_market names:
\* sh for a first digit 6, 5 or 9, sz for 0, 1, 2 or 3.
PrefixAgrees ==
    (BothApplied /\ SixDigits(k_code)) =>
        /\ k_code[1] \in ShanghaiFirst =>
              /\ ~k_convert.out.raises /\ k_convert.out.value = SH \o k_code
              /\ k_market.out = Some(SH)
        /\ k_code[1] \in ShenzhenFirst =>
              /\ ~k_convert.out.raises /\ k_convert.out.value = SZ \o k_code
              /\ k_market.out = Some(SZ)

\* On six digits whose first is 4, 7 or 8 convert raises ValueError and
\* get_market returns None.
UnlistedRejected ==
    (BothApplied /\ SixDigits(k_code) /\ k_code[1] \in UnlistedFirst) =>
        /\ k_convert.out.raises /\ k_convert.out.exc = "ValueError"
        /\ k_market.out = None

\* On an argument that is not six digits convert raises ValueError and
\* get_market returns None.
NotSixDigitsRejected ==
    (BothApplied /\ ~SixDigits(k_code)) =>
        /\ k_convert.out.raises /\ k_convert.out.exc = "ValueError"
        /\ k_market.out = None

\* C37: convert is idempotent on the values it returns, the prefix it adds
\* agrees with get_market on every six-digit code, and on six-digit codes
\* whose first digit is 4, 7 or 8 and on every argument that is not six
\* digits convert raises ValueError where get_market returns None.
C37_ConvertAndMarketAgree ==
    /\ ConvertIdempotent
    /\ PrefixAgrees
    /\ UnlistedRejected
    /\ NotSixDigitsRejected
====
